---- MODULE Spec2Model ----
(***************************************************************************)
(* State synchronization core of music_app_server.py: the SSE event bus,   *)
(* the subscriber stream, the idempotent watcher start-up and the sampler  *)
(* loops, with the player reached through the AppleScript bridge as the    *)
(* environment.                                                            *)
(*                                                                         *)
(* Python values are represented as follows: None is the empty tuple and a *)
(* present value v is <<v>>; a dict is a record; a list is a sequence; a   *)
(* float position is an integer number of half seconds; wall-clock time is *)
(* an integer number of tenths of a second.                                *)
(***************************************************************************)
EXTENDS Integers, Sequences, FiniteSets, TLC

VARIABLES
    subscribers,      \* _subscribers: the registered queues
    queue,            \* the content of each Queue(maxsize=100)
    out,              \* envelopes handed to the queues by the latest step
    spc,              \* where each /events generator stands
    connected,        \* whether each /events client still reads its socket
    yielded,          \* what the latest step wrote to a client: <<sub, envelope>>
    accepted,         \* history: envelopes each queue accepted
    emitted,          \* history: envelopes each client received
    posts,            \* number of POST requests served so far
    serving,          \* "no" | "script" | "wsgi": how the Flask app is being served
    watchersStarted,  \* _watchers_started
    tpc,              \* where each request thread stands in _start_watchers_once
    nowThreads,       \* number of _watch_now_loop threads started
    airThreads,       \* number of _watch_airplay_loop threads started
    masterThreads,    \* number of _watch_master_loop threads started
    snapNow,          \* _last_snapshot['now']
    snapAirplay,      \* _last_snapshot['airplay']
    snapMaster,       \* _last_snapshot['master']
    snapShuffle,      \* _last_snapshot['shuffle']
    artTok,           \* _last_snapshot['art_tok']
    artHash,          \* _last_snapshot['art_hash']
    cfg,              \* the content of config.json as load_settings finds it
    clock,            \* time.time(), in tenths of a second
    bridgeUp,         \* whether osascript calls currently succeed
    plNow,            \* the player's playback state and current track
    plShuffle,        \* the player's shuffle flag
    plMaster,         \* the player's sound volume
    plDevices,        \* the player's AirPlay devices
    nowPc,            \* where the _watch_now_loop thread stands
    nowIter,          \* iterations _watch_now_loop has begun
    nowItv,           \* itv of _watch_now_loop
    last_pid,         \* locals of _watch_now_loop
    last_state,
    last_meta_key,
    last_pos,
    lastSample,       \* history: the sample the latest now-playing tick took
    prevPid,          \* history: the identifier of the sample before lastSample
    restartOnly,      \* history: the latest tick detected a restart and nothing else
    airPc,            \* where the _watch_airplay_loop thread stands
    airIter,          \* iterations _watch_airplay_loop has begun
    airItv,           \* itv of _watch_airplay_loop
    airLast,          \* last of _watch_airplay_loop
    airSample,        \* history: the list the latest pass of _watch_airplay_loop composed
    lastPubAir,       \* history: the list of the latest airplay_full envelope
    prefetching,      \* albums whose _do_prefetch_and_hash thread is running
    tasks,            \* the _run threads of _prefetch_now_and_next, in the order started
    lastPass,         \* history: the latest pass of a _run thread
    masterPc,         \* where the _watch_master_loop thread stands
    masterIter,       \* iterations _watch_master_loop has begun
    masterItv,        \* itv of _watch_master_loop
    last_v,           \* locals of _watch_master_loop
    last_shuffle,
    lastPubMaster,    \* history: the level of the latest master_volume envelope
    masterResp,       \* the latest POST /master_volume: the level asked and the status answered
    files,            \* the files of ARTWORK_DIR: path -> content
    cacheOps,         \* number of cache operations so far
    cacheOp,          \* history: the latest cache operation, its arguments and result
    artResp           \* the response of the latest /artwork request

busVars == <<subscribers, queue, out, spc, connected, yielded, accepted, emitted, posts>>
startVars == <<serving, watchersStarted, tpc, nowThreads, airThreads, masterThreads>>
snapVars == <<snapNow, snapAirplay, snapMaster, snapShuffle, artTok, artHash>>
envVars == <<cfg, clock, bridgeUp, plNow, plShuffle, plMaster, plDevices>>
nowVars == <<nowPc, nowIter, nowItv, last_pid, last_state, last_meta_key, last_pos, lastSample, prevPid,
            restartOnly>>
airVars == <<airPc, airIter, airItv, airLast, airSample, lastPubAir>>
artVars == <<prefetching, tasks, lastPass>>
masterLocals == <<masterIter, masterItv, last_v, last_shuffle, lastPubMaster, masterResp>>
masterVars == <<masterPc, masterLocals>>
cacheVars == <<files, cacheOps, cacheOp, artResp>>
vars == <<busVars, startVars, snapVars, envVars, nowVars, airVars, artVars, cacheVars, masterVars>>

-----------------------------------------------------------------------------
(* Bounds of the model. *)

\* Queue(maxsize=100) of _sse_subscribe, scaled down so that a full queue is reached.
QueueMax == 2
\* POST /shuffle requests followed.
MaxPosts == 3
\* Largest player position, in half seconds.
MaxPos == 4
\* Iterations followed of each sampler loop.
MaxTicks == 3
\* Cache operations followed.
MaxCacheOps == 3

\* The Queue objects the /events handlers may create.
Subs == {"q1", "q2"}
\* The request threads that may run a start trigger at the same time.
Threads == {"t1", "t2", "t3"}

None == <<>>
Some(v) == <<v>>

\* dict.get(key): the value, or None when the key is absent.
Get(d, k) == IF k \in DOMAIN d THEN Some(d[k]) ELSE None
\* (x or ''): a missing or empty string reads as the empty string.
OrEmpty(x) == IF x = None THEN "" ELSE x[1]

-----------------------------------------------------------------------------
(* The player behind the AppleScript bridge. *)

\* Tracks the player may have as its current track; the last one is "no current track".
Tracks ==
    { [title |-> "Come Together", artist |-> "The Beatles", album |-> "Abbey Road"],
      [title |-> "Yesterday", artist |-> "The Beatles", album |-> "Help!"],
      [title |-> "Yesterday ", artist |-> "The Beatles", album |-> "Help!"],
      [title |-> "", artist |-> "", album |-> ""] }

\* What the player can be doing: stopped, or playing/paused somewhere in a track.
PlayerNowStates ==
    { [state |-> "stopped", title |-> "", artist |-> "", album |-> "", position |-> 0] }
    \cup { [state |-> st, title |-> t.title, artist |-> t.artist, album |-> t.album,
            position |-> p] : st \in {"playing", "paused"}, t \in Tracks, p \in 0..MaxPos }

DevNames == {"kitchen", "Living Room"}
DevVolumes == {30, 60}
NoDevice == [present |-> FALSE, active |-> FALSE, volume |-> 0]
DeviceStates ==
    {NoDevice} \cup { [present |-> TRUE, active |-> a, volume |-> v] :
                        a \in BOOLEAN, v \in DevVolumes }

\* str.strip() on the strings of the model.
Strip(s) == IF s = "Yesterday " THEN "Yesterday" ELSE s

\* run_applescript failing: osascript exits non-zero and a dict {'error': ..} comes back.
BridgeFails == ~bridgeUp

\* _get_now_playing_dict: the compact dict of the player's state, or
\* {"state": "unknown"} when the bridge failed.
NowPlayingDict(up, p) ==
    IF ~up
    THEN [state |-> "unknown"]
    ELSE [state |-> p.state, title |-> p.title, artist |-> p.artist,
          album |-> p.album, pid |-> "", position |-> p.position,
          is_playing |-> (p.state = "playing"),
          shuffle |-> plShuffle, repeat |-> FALSE]

GetNowPlayingDict == NowPlayingDict(bridgeUp, plNow)

\* get_shuffle_enabled: the player's flag, False when the bridge failed.
GetShuffleEnabled == IF BridgeFails THEN FALSE ELSE plShuffle

\* _get_master_volume_percent: the volume clamped to 0..100, -1 when the bridge failed.
Clamp100(v) == IF v < 0 THEN 0 ELSE IF v > 100 THEN 100 ELSE v
GetMasterVolumePercent == IF BridgeFails THEN -1 ELSE Clamp100(plMaster)

\* str.casefold() order of the device names.
CasefoldRank(n) == IF n = "kitchen" THEN 1 ELSE 2
\* The sort key of _read_airplay_full: (not active, name.casefold()).
SortsBefore(a, b) ==
    \/ a.active /\ ~b.active
    \/ a.active = b.active /\ CasefoldRank(a.name) < CasefoldRank(b.name)

RECURSIVE SortItems(_)
SortItems(S) ==
    IF S = {} THEN <<>>
    ELSE LET first == CHOOSE a \in S : \A b \in S \ {a} : SortsBefore(a, b)
         IN <<first>> \o SortItems(S \ {first})

\* _read_airplay_full: the list of {name, active}, active first then by name;
\* [] when primary and fallback scripts both failed.
ReadAirplayFullOf(up, devs) ==
    IF ~up THEN <<>>
    ELSE SortItems({ [name |-> n, active |-> devs[n].active] :
                       n \in {m \in DevNames : devs[m].present} })

ReadAirplayFull == ReadAirplayFullOf(bridgeUp, plDevices)

\* _get_airplay_volumes: name -> volume clamped to 0..100; {} when the bridge failed.
GetAirplayVolumesOf(up, devs) ==
    IF ~up THEN [n \in {} |-> 0]
    ELSE [n \in {m \in DevNames : devs[m].present} |-> Clamp100(devs[n].volume)]

GetAirplayVolumes == GetAirplayVolumesOf(bridgeUp, plDevices)

\* item['volume'] = volumes.get(name, None), for every item of the list.
WithVolumes(items, volumes) ==
    [i \in 1..Len(items) |->
        [name |-> items[i].name, active |-> items[i].active,
         volume |-> Get(volumes, items[i].name)]]

\* A step that publishes nothing and writes to no client.
BusQuiet ==
    /\ out' = <<>>
    /\ yielded' = <<>>
    /\ UNCHANGED <<subscribers, queue, spc, connected, accepted, emitted, posts>>

-----------------------------------------------------------------------------
(* Configuration. *)

\* A JSON value of config.json: a number, or something that is not a number.
IntVal(n) == [t |-> "int", v |-> n]
StrVal == [t |-> "str", v |-> 0]

\* _DEF_SETTINGS, the poll intervals.
DefPollNowMs == 1500
DefPollDevicesMs == 3000
DefPollMasterMs == 1500
DefSettings ==
    [poll_now_ms |-> IntVal(DefPollNowMs), poll_devices_ms |-> IntVal(DefPollDevicesMs),
     poll_master_ms |-> IntVal(DefPollMasterMs)]

\* Values config.json may hold for a poll interval: load_settings passes on whatever it
\* finds under the key.
PollNowValues == {IntVal(DefPollNowMs), IntVal(500), StrVal}
PollDevicesValues == {IntVal(DefPollDevicesMs), IntVal(500), StrVal}

\* time.time() and time.time() * 1000 as integers, the clock counting tenths of a second.
TimeSeconds == clock \div 10
\* The token clock read in whole seconds.
TimeMillisTruncated == (clock \div 10) * 1000
TimeMillis == clock * 100
\* The process is started this long after the epoch.
StartClock == 20

-----------------------------------------------------------------------------
(* The event bus. *)

\* The payload _sse_publish serializes (its 'ts' left out): the artwork token of a now
\* or snapshot dict is surfaced at the top level, and so is an artwork_etag, taken
\* from the data or else from _last_snapshot['art_hash'] when that is set.
Envelope(event, data, isDict) ==
    [event |-> event,
     data |-> data,
     artwork_token |->
        IF isDict /\ event \in {"now", "snapshot"} /\ "artwork_token" \in DOMAIN data
        THEN Some(data.artwork_token) ELSE None,
     artwork_etag |->
        IF ~isDict THEN None
        ELSE IF "artwork_etag" \in DOMAIN data THEN Some(data.artwork_etag)
        ELSE artHash]

\* _sse_publish with the remaining subscribers skipped once a put_nowait has failed.
SsePublishStopsAtFull(event, data, isDict) ==
    LET msg == Envelope(event, data, isDict)
        full == {s \in subscribers : Len(queue[s]) >= QueueMax}
        served == IF full = {} THEN subscribers ELSE {}
    IN  /\ queue' = [s \in Subs |-> IF s \in served THEN Append(queue[s], msg) ELSE queue[s]]
        /\ accepted' = [s \in Subs |->
                          IF s \in served THEN Append(accepted[s], msg) ELSE accepted[s]]
        /\ subscribers' = subscribers \ full
        /\ out' = <<msg>>

\* _sse_publish with the envelope put at the head of the second subscriber's queue.
SsePublishJumpsQueue(event, data, isDict) ==
    LET msg == Envelope(event, data, isDict)
        dead == {s \in subscribers : Len(queue[s]) >= QueueMax}
        Put(q, s) == IF s = "q2" THEN <<msg>> \o q ELSE Append(q, msg)
    IN  /\ queue' = [s \in Subs |->
                       IF s \in subscribers \ dead THEN Put(queue[s], s) ELSE queue[s]]
        /\ accepted' = [s \in Subs |->
                          IF s \in subscribers \ dead
                          THEN Put(accepted[s], s) ELSE accepted[s]]
        /\ subscribers' = subscribers \ dead
        /\ out' = <<msg>>

\* _sse_publish: put_nowait on every registered queue under _sub_lock; a queue on which
\* put_nowait raises (queue.Full is the exception a full queue raises) is collected in
\* dead and discarded from _subscribers.
SsePublish(event, data, isDict) ==
    LET msg == Envelope(event, data, isDict)
        dead == {s \in subscribers : Len(queue[s]) >= QueueMax}
    IN  /\ queue' = [s \in Subs |->
                       IF s \in subscribers \ dead THEN Append(queue[s], msg) ELSE queue[s]]
        /\ accepted' = [s \in Subs |->
                          IF s \in subscribers \ dead
                          THEN Append(accepted[s], msg) ELSE accepted[s]]
        /\ subscribers' = subscribers \ dead
        /\ out' = <<msg>>

\* _current_snapshot: four live probes of the player and the stored artwork token.
CurrentSnapshot ==
    [now |-> GetNowPlayingDict,
     shuffle |-> GetShuffleEnabled,
     master |-> GetMasterVolumePercent,
     airplay |-> WithVolumes(ReadAirplayFull, GetAirplayVolumes),
     artwork_token |-> artTok]

\* The first envelope of sse_events' generator, built in place (not by _sse_publish).
SnapshotEnvelope ==
    [event |-> "snapshot", data |-> CurrentSnapshot,
     artwork_token |-> None, artwork_etag |-> None]

\* What a step of a subscriber stream leaves alone.
StreamFrame ==
    UNCHANGED <<posts, startVars, snapVars, envVars, nowVars, airVars, artVars, cacheVars, masterVars>>

\* _sse_unsubscribe.
SseUnsubscribe(s) == subscribers' = subscribers \ {s}

\* The generator is closed at its yield (the write to the client failed): the finally
\* clause unsubscribes the queue.
StreamClosed(s) ==
    /\ spc' = [spc EXCEPT ![s] = "closed"]
    /\ SseUnsubscribe(s)
    /\ yielded' = <<>>
    /\ UNCHANGED emitted

\* The generator is closed at the snapshot's yield, which stands before the try: no
\* finally clause runs and the queue stays registered.
StreamAbandoned(s) ==
    /\ spc' = [spc EXCEPT ![s] = "closed"]
    /\ yielded' = <<>>
    /\ UNCHANGED <<emitted, subscribers>>

\* A yield of the generator: the client receives the envelope; or the client is gone and
\* the write either fails, which closes the generator, or is buffered unnoticed.
StreamYield(s, env, next, inTry) ==
    \/ /\ connected[s]
       /\ yielded' = <<s, env>>
       /\ emitted' = [emitted EXCEPT ![s] = Append(@, env)]
       /\ spc' = [spc EXCEPT ![s] = next]
       /\ UNCHANGED subscribers
    \/ /\ ~connected[s]
       /\ IF inTry THEN StreamClosed(s) ELSE StreamAbandoned(s)
    \/ /\ ~connected[s]
       /\ yielded' = <<>>
       /\ spc' = [spc EXCEPT ![s] = next]
       /\ UNCHANGED <<emitted, subscribers>>

\* sse_events' generator, first step: q = _sse_subscribe().
StreamOpen(s) ==
    /\ serving # "no"
    /\ spc[s] = "new"
    /\ subscribers' = subscribers \cup {s}
    /\ spc' = [spc EXCEPT ![s] = "subscribed"]
    /\ out' = <<>>
    /\ yielded' = <<>>
    /\ UNCHANGED <<queue, connected, accepted, emitted>>
    /\ StreamFrame

\* The generator with its queue made anew once the snapshot is built.
StreamSnapshotRequeues(s) ==
    /\ spc[s] = "subscribed"
    /\ StreamYield(s, SnapshotEnvelope, "streaming", FALSE)
    /\ queue' = [queue EXCEPT ![s] = <<>>]
    /\ out' = <<>>
    /\ UNCHANGED <<connected, accepted>>
    /\ StreamFrame

\* sse_events' generator, second step: snap = _current_snapshot(); yield init.
StreamSnapshot(s) ==
    /\ spc[s] = "subscribed"
    /\ StreamYield(s, SnapshotEnvelope, "streaming", FALSE)
    /\ out' = <<>>
    /\ UNCHANGED <<queue, connected, accepted>>
    /\ StreamFrame

\* The generator's loop reading the head of its queue without taking it off.
StreamNextPeeks(s) ==
    /\ spc[s] = "streaming"
    /\ queue[s] # <<>>
    /\ StreamYield(s, Head(queue[s]), "streaming", TRUE)
    /\ out' = <<>>
    /\ UNCHANGED <<queue, connected, accepted>>
    /\ StreamFrame

\* sse_events' generator, the loop: msg = q.get(); yield msg.  q.get() blocks while
\* the queue is empty.
StreamNext(s) ==
    /\ spc[s] = "streaming"
    /\ queue[s] # <<>>
    /\ queue' = [queue EXCEPT ![s] = Tail(@)]
    /\ StreamYield(s, Head(queue[s]), "streaming", TRUE)
    /\ out' = <<>>
    /\ UNCHANGED <<connected, accepted>>
    /\ StreamFrame

\* The client of a stream goes away.
ClientDisconnect(s) ==
    /\ spc[s] \in {"subscribed", "streaming"}
    /\ connected[s]
    /\ connected' = [connected EXCEPT ![s] = FALSE]
    /\ out' = <<>>
    /\ yielded' = <<>>
    /\ UNCHANGED <<subscribers, queue, spc, accepted, emitted>>
    /\ StreamFrame

\* shuffle_toggle, POST: set the player's flag, then publish the flag read back.
ShufflePost ==
    /\ serving # "no"
    /\ posts < MaxPosts
    /\ \E enabled \in BOOLEAN :
          /\ plShuffle' = IF BridgeFails THEN plShuffle ELSE enabled
          /\ SsePublish("shuffle", [enabled |-> IF BridgeFails THEN FALSE ELSE enabled], TRUE)
    /\ posts' = posts + 1
    /\ yielded' = <<>>
    /\ UNCHANGED <<spc, connected, emitted>>
    /\ UNCHANGED <<cfg, clock, bridgeUp, plNow, plMaster, plDevices>>
    /\ UNCHANGED <<startVars, snapVars, nowVars, airVars, artVars, cacheVars, masterVars>>

-----------------------------------------------------------------------------
(* Starting the watchers. *)

\* threading.Thread(target=..., daemon=True).start(), for the three loops: a loop that
\* is started for the first time begins at its load_settings() call.
StartThreads ==
    /\ nowThreads' = nowThreads + 1
    /\ airThreads' = airThreads + 1
    /\ masterThreads' = masterThreads + 1
    /\ nowPc' = IF nowPc = "idle" THEN "load" ELSE nowPc
    /\ airPc' = IF airPc = "idle" THEN "load" ELSE airPc
    /\ masterPc' = IF masterPc = "idle" THEN "load" ELSE masterPc

\* The body of _start_watchers_once past its test: set the flag, start the three threads.
SpawnWatchers ==
    /\ watchersStarted' = TRUE
    /\ StartThreads

StartFrame ==
    /\ BusQuiet
    /\ UNCHANGED <<snapVars, envVars>>
    /\ UNCHANGED <<nowIter, nowItv, last_pid, last_state, last_meta_key, last_pos, lastSample, prevPid>>
    /\ UNCHANGED restartOnly
    /\ UNCHANGED <<airIter, airItv, airLast, airSample, lastPubAir, prefetching, tasks, lastPass, cacheVars, masterLocals>>

\* The __main__ block: _start_watchers_once() on the main thread, then app.run().
MainStart ==
    /\ serving = "no"
    /\ IF watchersStarted
       THEN UNCHANGED <<watchersStarted, nowThreads, airThreads, masterThreads, nowPc, airPc, masterPc>>
       ELSE SpawnWatchers
    /\ serving' = "script"
    /\ UNCHANGED tpc
    /\ StartFrame

\* The module is imported and its app served by a WSGI host: the __main__ block does
\* not run, and the start triggers of the request handlers are the only ones.
ServeImported ==
    /\ serving = "no"
    /\ serving' = "wsgi"
    /\ UNCHANGED <<watchersStarted, tpc, nowThreads, airThreads, masterThreads, nowPc, airPc, masterPc>>
    /\ StartFrame

\* A request handler reaches its _start_watchers_once() call.
TriggerCall(t) ==
    /\ serving # "no"
    /\ tpc[t] = "idle"
    /\ tpc' = [tpc EXCEPT ![t] = "test"]
    /\ UNCHANGED <<serving, watchersStarted, nowThreads, airThreads, masterThreads, nowPc, airPc, masterPc>>
    /\ StartFrame

\* _start_watchers_once: if _watchers_started: return
StartTest(t) ==
    /\ tpc[t] = "test"
    /\ tpc' = [tpc EXCEPT ![t] = IF watchersStarted THEN "idle" ELSE "spawn"]
    /\ UNCHANGED <<serving, watchersStarted, nowThreads, airThreads, masterThreads, nowPc, airPc, masterPc>>
    /\ StartFrame

\* _start_watchers_once: _watchers_started = True
StartSetFlag(t) ==
    /\ tpc[t] = "spawn"
    /\ watchersStarted' = TRUE
    /\ tpc' = [tpc EXCEPT ![t] = "threads"]
    /\ UNCHANGED <<serving, nowThreads, airThreads, masterThreads, nowPc, airPc, masterPc>>
    /\ StartFrame

\* _start_watchers_once: the three Thread(...).start() calls
StartSpawn(t) ==
    /\ tpc[t] = "threads"
    /\ StartThreads
    /\ tpc' = [tpc EXCEPT ![t] = "idle"]
    /\ UNCHANGED <<serving, watchersStarted>>
    /\ StartFrame

-----------------------------------------------------------------------------
(* The album artwork cache. *)

Albums == {"Abbey Road", "Help!"}
\* The artist of a cache call; "" stands for an unknown artist (None or '').
Artists == {"", "The Beatles"}
\* The extensions _try_read_album_cache looks for, in its order.
Exts == <<"webp", "jpg", "png", "jpeg">>

\* Image bytes: what they encode and in which format; NoBytes is b''.
NoBytes == [fmt |-> "none", img |-> ""]
Images == { [fmt |-> "jpeg", img |-> "cover-a"], [fmt |-> "png", img |-> "cover-b"] }

\* _guess_image_mime
GuessImageMime(d) ==
    IF d.fmt = "none" THEN "application/octet-stream"
    ELSE IF d.fmt = "webp" THEN "image/webp"
    ELSE IF d.fmt = "png" THEN "image/png"
    ELSE "image/jpeg"

\* _convert_to_webp: the image re-encoded as WEBP, or None when there are no bytes,
\* Pillow is missing or the image cannot be decoded or saved.
ConvertToWebp(d, available) ==
    IF d = NoBytes \/ ~available THEN None ELSE Some([fmt |-> "webp", img |-> d.img])

\* _safe_slug and str.lower() on the strings of the model.
SafeSlug(x) == IF x = "Abbey Road" THEN "Abbey_Road" ELSE IF x = "Help!" THEN "Help" ELSE x
Lower(x) ==
    IF x = "Abbey Road" THEN "abbey road"
    ELSE IF x = "Help!" THEN "help!"
    ELSE IF x = "The Beatles" THEN "the beatles"
    ELSE x

\* _album_cache_path: <slug of the album>__<sha1 of "artist|album" in lower case>.<ext>
AlbumCachePath(album, artist, ext) ==
    [base |-> SafeSlug(album), suf |-> <<Lower(artist), Lower(album)>>, ext |-> ext]

CachePaths ==
    { AlbumCachePath(al, ar, Exts[i]) : al \in Albums, ar \in Artists, i \in 1..Len(Exts) }

\* The paths of the exact artist only, under every extension.
ExactCandidates(album, artist) ==
    [i \in 1..Len(Exts) |-> AlbumCachePath(album, artist, Exts[i])]

\* The paths _try_read_album_cache tries, in order: the exact artist under every
\* extension, then, when an artist was given, the empty artist under every extension.
ReadCandidates(album, artist) ==
    LET variants == IF artist # "" THEN <<artist, "">> ELSE <<"">>
    IN  [i \in 1..(Len(variants) * Len(Exts)) |->
            AlbumCachePath(album, variants[((i - 1) \div Len(Exts)) + 1],
                           Exts[((i - 1) % Len(Exts)) + 1])]

\* Reading with the variants in the other order.
TryReadFallbackFirst(f, album, artist) ==
    LET cand == ReadCandidates(album, artist)
        hits == {i \in 1..Len(cand) : f[cand[i]] # None}
        last == CHOOSE i \in hits : \A j \in hits : j <= i
    IN  IF hits = {} THEN None
        ELSE Some([data |-> f[cand[last]][1], mime |-> GuessImageMime(f[cand[last]][1])])

\* _try_read_album_cache: the first candidate that opens, with its guessed mime type;
\* (None, None) when none does.
TryReadAlbumCache(f, album, artist) ==
    LET cand == ReadCandidates(album, artist)
        hits == {i \in 1..Len(cand) : f[cand[i]] # None}
        first == CHOOSE i \in hits : \A j \in hits : i <= j
    IN  IF hits = {} THEN None
        ELSE Some([data |-> f[cand[first]][1], mime |-> GuessImageMime(f[cand[first]][1])])

\* The record of a cache operation; fresh tells that a write found no file of its key.
CacheOpRecord(op, album, artist, stored, result, count, ok) ==
    [op |-> op, album |-> album, artist |-> artist, stored |-> stored,
     result |-> result, count |-> count, ok |-> ok,
     fresh |-> op = "write" /\ \A i \in 1..Len(Exts) :
                                  files[AlbumCachePath(album, artist, Exts[i])] = None]
NoCacheOp ==
    [op |-> "none", album |-> "", artist |-> "", stored |-> None, result |-> None,
     count |-> 0, ok |-> TRUE, fresh |-> FALSE]

\* What the cache operations leave alone.
CacheFrame ==
    /\ serving # "no"
    /\ cacheOps < MaxCacheOps
    /\ cacheOps' = cacheOps + 1
    /\ out' = <<>>
    /\ yielded' = <<>>
    /\ UNCHANGED <<subscribers, queue, spc, connected, accepted, emitted, posts>>
    /\ UNCHANGED <<startVars, snapVars, envVars, nowVars, airVars, artVars, masterVars>>

\* A direct call of a cache function answers no request.
CacheCall == CacheFrame /\ UNCHANGED artResp

\* What _write_album_cache writes, and where: the WEBP encoding under .webp, or the
\* bytes as they are under .png or .jpg by their guessed type.
WriteTarget(album, artist, data, webp) ==
    LET conv == ConvertToWebp(data, webp)
    IN  IF conv # None
        THEN [path |-> AlbumCachePath(album, artist, "webp"), bytes |-> conv[1]]
        ELSE [path |-> AlbumCachePath(album, artist,
                                      IF GuessImageMime(data) = "image/png" THEN "png" ELSE "jpg"),
              bytes |-> data]

\* _write_album_cache: nothing for no bytes; otherwise the target file is written, an
\* I/O error being logged and swallowed.
WriteAlbumCache ==
    /\ CacheCall
    /\ \E album \in Albums, artist \in Artists, data \in Images \cup {NoBytes},
          webp \in BOOLEAN, ioOk \in BOOLEAN :
          LET t == WriteTarget(album, artist, data, webp)
          IN  IF data = NoBytes
              THEN /\ UNCHANGED files
                   /\ cacheOp' = CacheOpRecord("write", album, artist, None, None, 0, TRUE)
              ELSE IF ~ioOk
              THEN /\ UNCHANGED files
                   /\ cacheOp' = CacheOpRecord("write", album, artist, None, None, 0, FALSE)
              ELSE /\ files' = [files EXCEPT ![t.path] = Some(t.bytes)]
                   /\ cacheOp' = CacheOpRecord("write", album, artist, Some(t.bytes), None, 0, TRUE)

\* A call of _try_read_album_cache.
ReadAlbumCache ==
    /\ CacheCall
    /\ \E album \in Albums, artist \in Artists :
          cacheOp' = CacheOpRecord("read", album, artist, None,
                                   TryReadAlbumCache(files, album, artist), 0, TRUE)
    /\ UNCHANGED files

\* purge_album_cache: every file of the directory is removed and counted, a file whose
\* removal fails being skipped; listing the directory failing answers 500.
PurgeAlbumCache ==
    /\ CacheCall
    /\ \/ /\ UNCHANGED files
          /\ cacheOp' = CacheOpRecord("purge", "", "", None, None, 0, FALSE)
       \/ \E kept \in SUBSET {p \in CachePaths : files[p] # None} :
             /\ files' = [p \in CachePaths |-> IF p \in kept THEN files[p] ELSE None]
             /\ cacheOp' = CacheOpRecord("purge", "", "", None, None,
                              Cardinality({p \in CachePaths : files[p] # None} \ kept), TRUE)

-----------------------------------------------------------------------------
(* The /artwork handler. *)

\* A Flask response: its status, what its body is, and the body.
Response(status, kind, body) == [status |-> status, kind |-> kind, body |-> body]
NoResponse == Response(0, "none", None)
\* _BLANK_PNG, the 1x1 placeholder.
BlankPng == [fmt |-> "png", img |-> "blank"]

\* The files after _write_album_cache(album, artist, data).
FilesAfterWrite(f, album, artist, data, webp, ioOk) ==
    LET t == WriteTarget(album, artist, data, webp)
    IN  IF data = NoBytes \/ ~ioOk THEN f ELSE [f EXCEPT ![t.path] = Some(t.bytes)]

\* Response(out[0], mimetype=out[1]) when the WEBP conversion is available, else the
\* bytes as they are.
ServeImage(data, webp) ==
    LET conv == ConvertToWebp(data, webp)
    IN  Response(200, "image", IF conv # None THEN conv ELSE Some(data))

\* _album_art_bytes: the cached entry under the album and the library's artist for it,
\* else the artwork the album scan wrote to a temporary file, cached under that key;
\* None when there is neither.  The result is [data, files].
AlbumArtBytes(f, album, up, scan, readable, webp, ioOk) ==
    LET artist_name == IF up THEN "The Beatles" ELSE ""
        cached == TryReadAlbumCache(f, album, artist_name)
    IN  IF cached # None THEN [data |-> Some(cached[1].data), files |-> f]
        ELSE IF up /\ scan # None /\ readable
        THEN [data |-> scan,
              files |-> FilesAfterWrite(f, album, artist_name, scan[1], webp, ioOk)]
        ELSE [data |-> None, files |-> f]

\* The tracks the player plays while artwork is requested.
ArtPlayerStates ==
    { p \in PlayerNowStates :
        p.position = 0 /\ p.state # "paused" /\ p.title \in {"", "Come Together", "Yesterday"} }

\* The player goes over to another track, or stops.
PlayerPlays ==
    /\ serving # "no"
    /\ \E p \in ArtPlayerStates : p # plNow /\ plNow' = p
    /\ out' = <<>>
    /\ yielded' = <<>>
    /\ UNCHANGED <<subscribers, queue, spc, connected, accepted, emitted, posts>>
    /\ UNCHANGED <<cfg, clock, bridgeUp, plShuffle, plMaster, plDevices>>
    /\ UNCHANGED <<startVars, snapVars, nowVars, airVars, artVars, cacheVars, masterVars>>

\* artwork, GET: the cached album artwork unless refresh is asked; else the artwork of
\* the current track, exported by the player to a temporary file; else the artwork of
\* the album scan; else the placeholder.  up: osascript answers during the request;
\* cur: the artwork of the current track; scan: the artwork the album scan finds;
\* readable: the temporary file can be read; ioOk: the cache file can be written.
ArtworkGet ==
    /\ CacheFrame
    /\ watchersStarted
    /\ UNCHANGED cacheOp
    /\ \E up, refresh, webp, readable, ioOk \in BOOLEAN,
          cur \in {None} \cup {Some(i) : i \in Images},
          scan \in {None, Some([fmt |-> "jpeg", img |-> "cover-a"])} :
          LET now == NowPlayingDict(up, plNow)
              snap == IF snapNow = None THEN [state |-> "none"] ELSE snapNow[1]
              Fld(d, k) == Strip(OrEmpty(Get(d, k)))
              album == IF Fld(now, "album") # "" THEN Fld(now, "album") ELSE Fld(snap, "album")
              artist == IF Fld(now, "artist") # "" THEN Fld(now, "artist") ELSE Fld(snap, "artist")
              cached == IF album # "" /\ ~refresh
                        THEN TryReadAlbumCache(files, album, artist) ELSE None
              noart == ~up \/ cur = None
              found == AlbumArtBytes(files, album, up, scan, readable, webp, ioOk)
          IN  /\ cur # None => up /\ plNow.state = "playing" /\ plNow.title # ""
              /\ IF cached # None
                 THEN /\ artResp' = ServeImage(cached[1].data, webp)
                      /\ UNCHANGED files
                 ELSE IF noart
                 THEN IF album # "" /\ found.data # None
                      THEN /\ files' = FilesAfterWrite(found.files, album, artist,
                                                       found.data[1], webp, ioOk)
                           /\ artResp' = Response(200, "image", found.data)
                      ELSE /\ files' = IF album # "" THEN found.files ELSE files
                           /\ artResp' = Response(200, "placeholder", Some(BlankPng))
                 ELSE IF ~readable
                 THEN /\ artResp' = Response(404, "error", None)
                      /\ UNCHANGED files
                 ELSE /\ files' = IF album # ""
                                  THEN FilesAfterWrite(files, album, artist, cur[1], webp, ioOk)
                                  ELSE files
                      /\ artResp' = ServeImage(cur[1], webp)

-----------------------------------------------------------------------------
(* The initial state: the module has been imported. *)

Init ==
    /\ subscribers = {}
    /\ queue = [s \in Subs |-> <<>>]
    /\ out = <<>>
    /\ spc = [s \in Subs |-> "new"]
    /\ connected = [s \in Subs |-> TRUE]
    /\ yielded = <<>>
    /\ accepted = [s \in Subs |-> <<>>]
    /\ emitted = [s \in Subs |-> <<>>]
    /\ posts = 0
    /\ serving = "no"
    /\ watchersStarted = FALSE
    /\ tpc = [t \in Threads |-> "idle"]
    /\ nowThreads = 0
    /\ airThreads = 0
    /\ masterThreads = 0
    /\ snapNow = None
    /\ snapAirplay = None
    /\ snapMaster = None
    /\ snapShuffle = None
    /\ clock = StartClock
    /\ artTok = TimeSeconds
    /\ artHash = None
    /\ cfg = DefSettings
    /\ bridgeUp = TRUE
    /\ plNow = [state |-> "stopped", title |-> "", artist |-> "", album |-> "", position |-> 0]
    /\ plShuffle = FALSE
    /\ plMaster = 60
    /\ plDevices = [n \in DevNames |->
                      IF n = "Living Room"
                      THEN [present |-> TRUE, active |-> TRUE, volume |-> 30]
                      ELSE NoDevice]
    /\ nowPc = "idle"
    /\ nowIter = 0
    /\ nowItv = 0
    /\ last_pid = None
    /\ last_state = None
    /\ last_meta_key = None
    /\ last_pos = None
    /\ lastSample = None
    /\ prevPid = None
    /\ restartOnly = FALSE
    /\ airPc = "idle"
    /\ airIter = 0
    /\ airItv = 0
    /\ airLast = None
    /\ airSample = None
    /\ lastPubAir = None
    /\ prefetching = {}
    /\ tasks = <<>>
    /\ lastPass = None
    /\ files = [p \in CachePaths |-> None]
    /\ cacheOps = 0
    /\ cacheOp = NoCacheOp
    /\ artResp = NoResponse
    /\ masterPc = "idle"
    /\ masterIter = 0
    /\ masterItv = 0
    /\ last_v = None
    /\ last_shuffle = None
    /\ lastPubMaster = None
    /\ masterResp = None

\* The event bus with its subscriber streams, fed by the /shuffle handler.
NextBus ==
    \/ MainStart
    \/ ShufflePost
    \/ \E s \in Subs : StreamOpen(s)
    \/ \E s \in Subs : StreamSnapshot(s)
    \/ \E s \in Subs : StreamNext(s)
    \/ \E s \in Subs : ClientDisconnect(s)

SpecBus == Init /\ [][NextBus]_vars

\* The same, with every stream's generator thread scheduled whenever it can take a
\* step: the server runs one thread per request and a runnable thread is not starved.
\* Requests and client disconnects are the environment's and carry no fairness.
SpecBusFair ==
    /\ SpecBus
    /\ \A s \in Subs : WF_vars(StreamSnapshot(s)) /\ WF_vars(StreamNext(s))

\* The start triggers of concurrent request threads.
NextStart ==
    \/ MainStart
    \/ ServeImported
    \/ \E t \in Threads : TriggerCall(t)
    \/ \E t \in Threads : StartTest(t)
    \/ \E t \in Threads : StartSetFlag(t)
    \/ \E t \in Threads : StartSpawn(t)

SpecStart == Init /\ [][NextStart]_vars

\* The cache under writes, reads and purges.
NextCache ==
    \/ MainStart
    \/ WriteAlbumCache
    \/ ReadAlbumCache
    \/ PurgeAlbumCache

SpecCache == Init /\ [][NextCache]_vars

\* The /artwork handler beside a player that changes tracks.
NextArt ==
    \/ MainStart
    \/ PlayerPlays
    \/ ArtworkGet

SpecArt == Init /\ [][NextArt]_vars

-----------------------------------------------------------------------------
(* The now-playing loop. *)

Max(a, b) == IF a >= b THEN a ELSE b

\* max(0.8, poll_now_ms / 1000.0), in tenths of a second.
MinNowItv == 8
NowInterval(ms) == Max(MinNowItv, ms \div 100)

\* f"{title}|{artist}|{album}"
MetaKey(title, artist, album) == <<title, "|", artist, "|", album>>
\* bool(meta_key): a non-empty string is true.
Truthy(key) == Len(key) > 0

\* The key of a now-playing dict (or of {}), its fields stripped.
MetaKeyOf(d) ==
    MetaKey(Strip(OrEmpty(Get(d, "title"))), Strip(OrEmpty(Get(d, "artist"))),
            Strip(OrEmpty(Get(d, "album"))))

\* float(now.get('position') or 0.0)
PositionOf(d) == IF "position" \in DOMAIN d THEN Some(d.position) ELSE Some(0)

\* The restart threshold of 1.5 s, in half seconds.
RestartDrop == 3
\* The restart test with any drop of the position taken for a restart.
RestartedOnAnyDrop(pos, lastPos) == pos # None /\ lastPos # None /\ pos[1] < lastPos[1]

\* The restart test with a drop of exactly 1.5 s taken for a restart too.
RestartedAtThreshold(pos, lastPos) ==
    pos # None /\ lastPos # None /\ pos[1] + RestartDrop <= lastPos[1]

\* pos is not None and last_pos is not None and (pos + 1.5) < last_pos
Restarted(pos, lastPos) == pos # None /\ lastPos # None /\ pos[1] + RestartDrop < lastPos[1]

\* The change test with the player state left out of it.
DetectedIgnoringState(now) ==
    LET pid == OrEmpty(Get(now, "pid"))
        meta_key == MetaKeyOf(now)
        meta_changed == (Some(meta_key) # last_meta_key) /\ Truthy(meta_key)
    IN  (Some(pid) # last_pid) \/ meta_changed \/ Restarted(PositionOf(now), last_pos)

\* changed or meta_changed or restarted, for the sample now against the loop's locals.
Detected(now) ==
    LET pid == OrEmpty(Get(now, "pid"))
        st == Get(now, "state")
        meta_key == MetaKeyOf(now)
        changed == (Some(pid) # last_pid) \/ (st # last_state)
        meta_changed == (Some(meta_key) # last_meta_key) /\ Truthy(meta_key)
    IN  changed \/ meta_changed \/ Restarted(PositionOf(now), last_pos)

\* The token condition without its identifier disjunct.
BumpsTokenIgnoringPid(now) ==
    LET pid == OrEmpty(Get(now, "pid"))
        meta_key == MetaKeyOf(now)
        prev == IF snapNow = None THEN [x \in {} |-> 0] ELSE snapNow[1]
        prev_key == MetaKeyOf(prev)
    IN  \/ pid = "" /\ Truthy(meta_key) /\ meta_key # prev_key
        \/ Restarted(PositionOf(now), last_pos)

\* The condition under which the loop sets art_tok, against _last_snapshot['now'].
BumpsToken(now) ==
    LET pid == OrEmpty(Get(now, "pid"))
        meta_key == MetaKeyOf(now)
        prev == IF snapNow = None THEN [x \in {} |-> 0] ELSE snapNow[1]
        prev_pid == OrEmpty(Get(prev, "pid"))
        prev_key == MetaKeyOf(prev)
    IN  \/ pid # "" /\ pid # prev_pid
        \/ pid = "" /\ Truthy(meta_key) /\ meta_key # prev_key
        \/ Restarted(PositionOf(now), last_pos)

\* {**now, 'artwork_token': tok}
WithToken(now, tok) ==
    [k \in DOMAIN now \cup {"artwork_token"} |-> IF k = "artwork_token" THEN tok ELSE now[k]]

NowFrame ==
    /\ yielded' = <<>>
    /\ UNCHANGED <<spc, connected, emitted, posts>>
    /\ UNCHANGED <<startVars, airVars, cacheVars, masterVars, tasks, lastPass>>
    /\ UNCHANGED <<snapAirplay, snapMaster, snapShuffle>>
    /\ UNCHANGED <<plShuffle, plMaster, plDevices>>

NowSilent ==
    /\ out' = <<>>
    /\ UNCHANGED <<subscribers, queue, accepted>>

\* _watch_now_loop: s = load_settings(); itv = max(0.8, s.get('poll_now_ms', 1500) / 1000.0)
\* load_settings returns what config.json holds by now under the key.  The two
\* statements stand before the try: a value that cannot be divided raises TypeError out
\* of the loop, which ends the thread.
NowLoadSettings ==
    /\ nowPc = "load"
    /\ nowIter < MaxTicks
    /\ nowIter' = nowIter + 1
    /\ \E v \in PollNowValues :
          /\ cfg' = [cfg EXCEPT !.poll_now_ms = v]
          /\ IF v.t = "int"
             THEN nowPc' = "probe" /\ nowItv' = NowInterval(v.v)
             ELSE nowPc' = "dead" /\ UNCHANGED nowItv
    /\ NowSilent
    /\ NowFrame
    /\ UNCHANGED <<bridgeUp, plNow, clock, snapNow, artTok, artHash, prefetching>>
    /\ UNCHANGED <<last_pid, last_state, last_meta_key, last_pos, lastSample, prevPid, restartOnly>>

\* _watch_now_loop: the body of the try, for the sample now.
NowTickOn(now) ==
    LET pos == PositionOf(now)
        album == Strip(OrEmpty(Get(now, "album")))
        tok == IF BumpsToken(now) THEN TimeMillis ELSE artTok
    IN  IF Detected(now)
        THEN /\ last_pid' = Some(OrEmpty(Get(now, "pid")))
             /\ last_state' = Get(now, "state")
             /\ last_meta_key' = Some(MetaKeyOf(now))
             /\ last_pos' = IF pos # None THEN pos ELSE last_pos
             /\ artTok' = tok
             /\ snapNow' = Some(now)
             /\ SsePublish("now", WithToken(now, tok), TRUE)
             /\ prefetching' = IF album # "" THEN prefetching \cup {album} ELSE prefetching
        ELSE /\ last_pos' = IF pos # None THEN pos ELSE last_pos
             /\ NowSilent
             /\ UNCHANGED <<last_pid, last_state, last_meta_key, artTok, snapNow, prefetching>>

\* restarted, with changed and meta_changed both false.
RestartedOnly(now) ==
    /\ Some(OrEmpty(Get(now, "pid"))) = last_pid
    /\ Get(now, "state") = last_state
    /\ Some(MetaKeyOf(now)) = last_meta_key
    /\ Restarted(PositionOf(now), last_pos)

\* The histories of the samples.
Sampled(now) ==
    /\ lastSample' = Some(now)
    /\ restartOnly' = RestartedOnly(now)
    /\ prevPid' = IF lastSample = None THEN None ELSE Some(OrEmpty(Get(lastSample[1], "pid")))

\* _watch_now_loop: one pass through the try.  The probe finds the bridge up or down
\* and the player in whatever state it is in by then.
NowTick ==
    /\ nowPc = "probe"
    /\ \E up \in BOOLEAN, p \in PlayerNowStates :
          /\ bridgeUp' = up
          /\ plNow' = IF up THEN p ELSE plNow
          /\ NowTickOn(NowPlayingDict(up, p))
          /\ Sampled(NowPlayingDict(up, p))
    /\ nowPc' = "sleep"
    /\ NowFrame
    /\ UNCHANGED <<cfg, clock, artHash, nowIter, nowItv>>

\* _watch_now_loop: the probe raises (osascript cannot be spawned); the except clause
\* logs it and the pass ends.
NowTickRaises ==
    /\ nowPc = "probe"
    /\ bridgeUp' = FALSE
    /\ nowPc' = "sleep"
    /\ NowSilent
    /\ NowFrame
    /\ UNCHANGED <<cfg, plNow, clock, snapNow, artTok, artHash, prefetching, nowIter, nowItv>>
    /\ UNCHANGED <<last_pid, last_state, last_meta_key, last_pos, lastSample, prevPid, restartOnly>>

\* _watch_now_loop: time.sleep(itv)
NowSleep ==
    /\ nowPc = "sleep"
    /\ clock' = clock + nowItv
    /\ nowPc' = "load"
    /\ NowSilent
    /\ NowFrame
    /\ UNCHANGED <<cfg, bridgeUp, plNow, snapNow, artTok, artHash, prefetching, nowIter, nowItv>>
    /\ UNCHANGED <<last_pid, last_state, last_meta_key, last_pos, lastSample, prevPid, restartOnly>>

\* The now-playing loop, started by the __main__ block, against a player that
\* changes and a configuration file that is rewritten.
NextNow ==
    \/ MainStart
    \/ NowLoadSettings
    \/ NowTick
    \/ NowTickRaises
    \/ NowSleep

SpecNow == Init /\ [][NextNow]_vars

\* The now-playing loop fed by a probe that reports the track's persistent ID: the
\* samples of _get_now_playing_dict carry pid "" only, and the loop reads now.get('pid').
Pids == {"A", "B"}
IdentPlayerStates ==
    { p \in PlayerNowStates :
        /\ p.state # "stopped" => p.position \in {0, MaxPos}
        /\ p.title \in {"", "Come Together", "Yesterday"} }

NowTickIdent ==
    /\ nowPc = "probe"
    /\ \E p \in IdentPlayerStates, x \in Pids :
          LET now == [NowPlayingDict(TRUE, p) EXCEPT !.pid = IF p.state = "stopped" THEN "" ELSE x]
          IN  /\ plNow' = p
              /\ NowTickOn(now)
              /\ Sampled(now)
    /\ nowPc' = "sleep"
    /\ NowFrame
    /\ bridgeUp' = TRUE
    /\ UNCHANGED <<cfg, clock, artHash, nowIter, nowItv>>

NextIdent ==
    \/ MainStart
    \/ NowLoadSettings
    \/ NowTickIdent
    \/ NowTickRaises
    \/ NowSleep

SpecIdent == Init /\ [][NextIdent]_vars

-----------------------------------------------------------------------------
(* The artwork prefetch threads of the now-playing loop. *)

\* The artwork the library holds for an album.
AlbumArt(album) ==
    IF album = "Abbey Road" THEN [fmt |-> "jpeg", img |-> "cover-a"]
    ELSE [fmt |-> "png", img |-> "cover-b"]

\* hashlib.sha1(b).hexdigest(): a digest that tells any two byte strings apart.
Sha1(b) == <<"sha1", b.fmt, b.img>>

\* _do_prefetch_and_hash, the thread the loop starts for an album: one call of
\* _album_art_bytes(album), whose bytes, when there are any, are hashed into
\* _last_snapshot['art_hash']; then the thread ends.  up: osascript answers; found: the
\* album scan finds the album's artwork; readable, webp, ioOk as for /artwork.
PrefetchRun(album) ==
    /\ album \in prefetching
    /\ prefetching' = prefetching \ {album}
    /\ \E up, found, readable, webp, ioOk \in BOOLEAN :
          LET b == AlbumArtBytes(files, album, up,
                                 IF found THEN Some(AlbumArt(album)) ELSE None,
                                 readable, webp, ioOk)
          IN  /\ bridgeUp' = up
              /\ files' = b.files
              /\ artHash' = IF b.data # None /\ b.data[1] # NoBytes
                            THEN Some(Sha1(b.data[1])) ELSE artHash
    /\ BusQuiet
    /\ UNCHANGED <<startVars, nowVars, airVars, masterVars, tasks, lastPass>>
    /\ UNCHANGED <<snapNow, snapAirplay, snapMaster, snapShuffle, artTok>>
    /\ UNCHANGED <<cfg, clock, plNow, plShuffle, plMaster, plDevices>>
    /\ UNCHANGED <<cacheOps, cacheOp, artResp>>

\* The now-playing loop with config.json left as it is, sampling a player that stops
\* or plays one of three tracks from its start.
NowLoadSettingsSame == NowLoadSettings /\ cfg' = cfg
NowTickFromStart == NowTick /\ plNow' \in ArtPlayerStates

\* The now-playing loop and the prefetch threads it starts.
NextPrefetch ==
    \/ MainStart
    \/ NowLoadSettingsSame
    \/ NowTickFromStart
    \/ NowTickRaises
    \/ NowSleep
    \/ \E album \in Albums : PrefetchRun(album)

SpecPrefetch == Init /\ [][NextPrefetch]_vars

-----------------------------------------------------------------------------
(* The on-demand prefetch tasks of the track commands. *)

\* attempts = 6
Attempts == 6

\* A _run thread as it is started, with no pass made and no call of _album_art_bytes,
\* and a thread that has ended, which has no locals any more.
NewTask == [attempts |-> 0, fetches |-> 0, done |-> FALSE]
EndedTask == [attempts |-> 0, fetches |-> 0, done |-> TRUE]

\* _last_snapshot.get('now') or {}
SnapNowDict == IF snapNow = None THEN [x \in {} |-> 0] ELSE snapNow[1]

TaskFrame ==
    /\ BusQuiet
    /\ UNCHANGED <<startVars, nowVars, airVars, masterVars, prefetching>>
    /\ UNCHANGED <<snapVars, cfg, clock, plShuffle, plMaster, plDevices>>
    /\ UNCHANGED <<cacheOps, cacheOp, artResp>>

\* The record of a pass: the thread, the number of the pass, the album of the sample,
\* alb, the calls of _album_art_bytes the thread has made, and whether it ended.
PassRecord(i, n, sampled, alb, fetches, ended) ==
    [thread |-> i, attempt |-> n, sampled |-> sampled, alb |-> alb,
     fetches |-> fetches, ended |-> ended]

\* One pass of the for loop of _run in thread i.  The probe finds the bridge up or down
\* and the player where it is by then; alb is the sampled album, or the album of
\* _last_snapshot['now'] when the sample has none.  With an album the thread calls
\* _album_art_bytes(alb) and, when it stops there, breaks out of the loop; without one
\* it sleeps, and the loop ends after the last pass.  upFetch, found, ioOk: what
\* _album_art_bytes meets (osascript answers, the album scan finds artwork, the cache
\* file can be written).
TaskPass(i, stops) ==
    /\ i \in 1..Len(tasks)
    /\ ~tasks[i].done
    /\ \E up \in BOOLEAN, p \in ArtPlayerStates :
          LET now == NowPlayingDict(up, p)
              sampled == Strip(OrEmpty(Get(now, "album")))
              alb == IF sampled = "" THEN Strip(OrEmpty(Get(SnapNowDict, "album")))
                     ELSE sampled
              n == tasks[i].attempts + 1
              fetches == tasks[i].fetches + (IF alb # "" THEN 1 ELSE 0)
              ended == (alb # "" /\ stops) \/ n = Attempts
          IN  /\ plNow' = IF up THEN p ELSE plNow
              /\ IF alb # ""
                 THEN \E upFetch, found, ioOk \in BOOLEAN :
                         /\ bridgeUp' = upFetch
                         /\ files' = AlbumArtBytes(files, alb, upFetch,
                                                   IF found THEN Some(AlbumArt(alb)) ELSE None,
                                                   TRUE, FALSE, ioOk).files
                 ELSE bridgeUp' = up /\ files' = files
              /\ tasks' = [tasks EXCEPT ![i] =
                    IF ended THEN EndedTask
                    ELSE [attempts |-> n, fetches |-> fetches, done |-> FALSE]]
              /\ lastPass' = Some(PassRecord(i, n, sampled, alb, fetches, ended))
    /\ TaskFrame

\* The pass without its break: the loop goes on after the call of _album_art_bytes.
TaskAttemptGoesOn(i) == TaskPass(i, FALSE)

\* _prefetch_now_and_next._run: one pass of `for i in range(attempts)`.
TaskAttempt(i) == TaskPass(i, TRUE)

\* _prefetch_now_and_next._run: the probe raises (osascript cannot be spawned); the
\* outer except clause logs it and the thread ends.
TaskAttemptRaises(i) ==
    /\ i \in 1..Len(tasks)
    /\ ~tasks[i].done
    /\ bridgeUp' = FALSE
    /\ tasks' = [tasks EXCEPT ![i] = EndedTask]
    /\ lastPass' = Some(PassRecord(i, tasks[i].attempts + 1, "", "", tasks[i].fetches, TRUE))
    /\ UNCHANGED <<plNow, files>>
    /\ TaskFrame

\* next_track, POST (previous_track is the same code with another script): a failed
\* script answers 500; otherwise the player has gone over to another track, whose
\* metadata may not have come through yet, and _prefetch_now_and_next starts a thread.
NextTrack ==
    /\ serving # "no"
    /\ posts < MaxPosts
    /\ posts' = posts + 1
    /\ \E up \in BOOLEAN, p \in ArtPlayerStates :
          /\ bridgeUp' = up
          /\ plNow' = IF up THEN p ELSE plNow
          /\ tasks' = IF up THEN Append(tasks, NewTask) ELSE tasks
    /\ out' = <<>>
    /\ yielded' = <<>>
    /\ UNCHANGED <<subscribers, queue, spc, connected, accepted, emitted>>
    /\ UNCHANGED <<startVars, nowVars, airVars, masterVars, cacheVars, prefetching, lastPass>>
    /\ UNCHANGED <<snapVars, cfg, clock, plShuffle, plMaster, plDevices>>

\* The track commands and their prefetch threads beside the first pass of the
\* now-playing loop, which fills _last_snapshot['now'] with the player as the commands
\* and the passes of the threads find it.  config.json is left as it is, the client
\* sends a command once the thread of the one before has ended, and the tracks the
\* player goes over to are of the album `Help!` or have no metadata yet.
NowFirstPass == NowLoadSettings /\ cfg' = cfg /\ nowIter = 0
NowTickAsIs == NowTick /\ bridgeUp' /\ plNow' = plNow
NextTrackInTurn ==
    NextTrack /\ (\A i \in 1..Len(tasks) : tasks[i].done) /\ plNow'.album # "Abbey Road"
TaskAttemptLagging(i) == TaskAttempt(i) /\ plNow'.album # "Abbey Road"

NextTrigger ==
    \/ MainStart
    \/ NowFirstPass
    \/ NowTickAsIs
    \/ NowSleep
    \/ NextTrackInTurn
    \/ \E i \in 1..MaxPosts : TaskAttemptLagging(i)
    \/ \E i \in 1..MaxPosts : TaskAttemptRaises(i)

SpecTrigger == Init /\ [][NextTrigger]_vars

\* A started thread is scheduled again and again until it ends.
SpecTriggerFair ==
    SpecTrigger
    /\ \A i \in 1..MaxPosts : WF_vars(TaskAttemptLagging(i) \/ TaskAttemptRaises(i))

-----------------------------------------------------------------------------
(* The devices loop and the device command handlers. *)

\* What the two device probes of one pass compose: the items of _read_airplay_full,
\* each with item['volume'] = volumes.get(name, None).
ComposeDevices(up, devs) ==
    WithVolumes(ReadAirplayFullOf(up, devs), GetAirplayVolumesOf(up, devs))

\* The devices the player may be found with: the Living Room speaker always, the
\* kitchen speaker when it is switched on.
DevicesInputs ==
    { d \in [DevNames -> DeviceStates] :
        /\ d["Living Room"].present
        /\ d["kitchen"].present => d["kitchen"].volume = 60 }

MinAirItv == 10
\* itv = max(1.0, ms / 1000.0), in tenths of a second.
AirInterval(ms) == Max(MinAirItv, ms \div 100)

AirFrame ==
    /\ yielded' = <<>>
    /\ UNCHANGED <<spc, connected, emitted>>
    /\ UNCHANGED <<startVars, nowVars, artVars, cacheVars, masterVars>>
    /\ UNCHANGED <<snapNow, snapMaster, snapShuffle, artTok, artHash>>
    /\ UNCHANGED <<plNow, plShuffle, plMaster>>

AirSilent ==
    /\ out' = <<>>
    /\ UNCHANGED <<subscribers, queue, accepted, snapAirplay, lastPubAir>>

\* The comparison of the devices loop taken over the names of the devices only.
DevicesChangedByName(items, last) ==
    \/ last = None
    \/ [i \in 1..Len(items) |-> items[i].name] # [i \in 1..Len(last[1]) |-> last[1][i].name]

\* items != last
DevicesChanged(items, last) == Some(items) # last

\* _last_snapshot['airplay'] = items; _sse_publish('airplay_full', items)
PublishDevices(items) ==
    /\ snapAirplay' = Some(items)
    /\ SsePublish("airplay_full", items, FALSE)
    /\ lastPubAir' = Some(items)

\* _watch_airplay_loop: s = load_settings(); itv = max(1.0, s.get('poll_devices_ms',
\* 3000) / 1000.0), both before the try: a value that cannot be divided raises
\* TypeError out of the loop, which ends the thread.
AirLoadSettings ==
    /\ airPc = "load"
    /\ airIter < MaxTicks
    /\ airIter' = airIter + 1
    /\ \E v \in PollDevicesValues :
          /\ cfg' = [cfg EXCEPT !.poll_devices_ms = v]
          /\ IF v.t = "int"
             THEN airPc' = "probe" /\ airItv' = AirInterval(v.v)
             ELSE airPc' = "dead" /\ UNCHANGED airItv
    /\ AirSilent
    /\ AirFrame
    /\ UNCHANGED <<posts, clock, bridgeUp, plDevices, airLast, airSample>>

\* _watch_airplay_loop: one pass through the try.  The probes find the bridge up or
\* down and the devices as they are by then; the composed list is compared with the
\* loop's own local last.
AirTick ==
    /\ airPc = "probe"
    /\ \E up \in BOOLEAN :
          \E d \in (IF up THEN DevicesInputs ELSE {plDevices}) :
             LET items == ComposeDevices(up, d)
             IN  /\ bridgeUp' = up
                 /\ plDevices' = d
                 /\ airSample' = Some(items)
                 /\ IF DevicesChanged(items, airLast)
                    THEN /\ airLast' = Some(items)
                         /\ PublishDevices(items)
                    ELSE /\ AirSilent
                         /\ UNCHANGED airLast
    /\ airPc' = "sleep"
    /\ AirFrame
    /\ UNCHANGED <<posts, cfg, clock, airIter, airItv>>

\* _watch_airplay_loop: a probe raises (osascript cannot be spawned); the except clause
\* logs it and the pass ends.
AirTickRaises ==
    /\ airPc = "probe"
    /\ bridgeUp' = FALSE
    /\ airPc' = "sleep"
    /\ AirSilent
    /\ AirFrame
    /\ UNCHANGED <<posts, cfg, clock, plDevices, airIter, airItv, airLast, airSample>>

\* _watch_airplay_loop: time.sleep(itv)
AirSleep ==
    /\ airPc = "sleep"
    /\ clock' = clock + airItv
    /\ airPc' = "load"
    /\ AirSilent
    /\ AirFrame
    /\ UNCHANGED <<posts, cfg, bridgeUp, plDevices, airIter, airItv, airLast, airSample>>

\* What a device command handler leaves alone.
HandlerFrame ==
    /\ serving # "no"
    /\ posts < MaxPosts
    /\ posts' = posts + 1
    /\ AirFrame
    /\ UNCHANGED <<cfg, clock, airPc, airIter, airItv, airLast, airSample>>

\* set_devices, POST: no names is a no-op; a failed script answers 500; otherwise the
\* named devices the player has become its current devices (when there is one), and
\* the handler probes, stores and publishes the composed list.
SetDevices ==
    /\ HandlerFrame
    /\ \E names \in SUBSET DevNames, up \in BOOLEAN :
          LET outDevs == {n \in names : plDevices[n].present}
              applied == IF outDevs = {} THEN plDevices
                         ELSE [n \in DevNames |->
                                 [plDevices[n] EXCEPT !.active = (n \in outDevs)]]
          IN  IF names = {}
              THEN AirSilent /\ UNCHANGED <<bridgeUp, plDevices>>
              ELSE /\ bridgeUp' = up
                   /\ IF ~up
                      THEN AirSilent /\ UNCHANGED plDevices
                      ELSE /\ plDevices' = applied
                           /\ PublishDevices(ComposeDevices(TRUE, applied))

\* The levels a client may post: none, or an integer.
LevelInputs == {None, Some(150)}

\* set_device_volume, POST: a missing level answers 400; a failed script or a device
\* the player does not have answers 500; otherwise the device's volume is set to the
\* level clamped to 0..100, and the handler probes, stores and publishes the composed list.
SetDeviceVolume ==
    /\ HandlerFrame
    /\ \E device \in DevNames, level \in LevelInputs, up \in BOOLEAN :
          IF level = None
          THEN AirSilent /\ UNCHANGED <<bridgeUp, plDevices>>
          ELSE /\ bridgeUp' = up
               /\ IF ~up \/ ~plDevices[device].present
                  THEN AirSilent /\ UNCHANGED plDevices
                  ELSE LET set == [plDevices EXCEPT ![device].volume = Clamp100(level[1])]
                       IN  /\ plDevices' = set
                           /\ PublishDevices(ComposeDevices(TRUE, set))

\* The devices loop, started by the __main__ block, beside the two device command
\* handlers, against devices that change and a configuration file that is rewritten.
NextDev ==
    \/ MainStart
    \/ AirLoadSettings
    \/ AirTick
    \/ AirTickRaises
    \/ AirSleep
    \/ SetDevices
    \/ SetDeviceVolume

SpecDev == Init /\ [][NextDev]_vars

\* The devices loop and the volume handler publishing to one subscriber stream whose
\* client reads the snapshot and then leaves its envelopes unread; the kitchen speaker
\* stays switched off and config.json is left as it is.
SlowSub == "q1"
AirLoadSettingsSame == AirLoadSettings /\ cfg' = cfg
AirTickLivingRoom == AirTick /\ plDevices'["kitchen"] = NoDevice

NextDevBus ==
    \/ MainStart
    \/ AirLoadSettingsSame
    \/ AirTickLivingRoom
    \/ AirTickRaises
    \/ AirSleep
    \/ SetDeviceVolume
    \/ StreamOpen(SlowSub)
    \/ StreamSnapshot(SlowSub)

SpecDevBus == Init /\ [][NextDevBus]_vars

\* The devices loop, the only publisher, and one subscriber stream whose client reads
\* at its own pace.
NextDevStream ==
    \/ MainStart
    \/ AirLoadSettingsSame
    \/ AirTickLivingRoom
    \/ AirTickRaises
    \/ AirSleep
    \/ StreamOpen(SlowSub)
    \/ StreamSnapshot(SlowSub)
    \/ StreamNext(SlowSub)

SpecDevStream == Init /\ [][NextDevStream]_vars

\* The devices loop on its own, the only publisher of device lists, with both speakers
\* coming and going, config.json left as it is, and one subscriber whose queue keeps
\* what it is sent.
NextAir ==
    \/ MainStart
    \/ AirLoadSettingsSame
    \/ AirTick
    \/ AirTickRaises
    \/ AirSleep
    \/ StreamOpen(SlowSub)

SpecAir == Init /\ [][NextAir]_vars

-----------------------------------------------------------------------------
(* The master volume and shuffle loop and the master volume handler. *)

\* A JSON number strictly between 0 and 1, such as 0.5.
FracVal == [t |-> "frac", v |-> 0]
\* int(x) for a JSON number: the fraction is cut off.
IntOf(x) == IF x.t = "int" THEN x.v ELSE 0
\* Values config.json may hold for poll_master_ms; 0 disables the loop.
PollMasterValues == {IntVal(DefPollMasterMs), IntVal(0), FracVal, StrVal}
\* The volumes the player may be found at.
MasterInputs == {40, 60}

MinMasterItv == 8
\* itv = max(0.8, pm / 1000.0), in tenths of a second.
MasterInterval(ms) == Max(MinMasterItv, ms \div 100)
\* time.sleep(2.0) of a disabled loop, in tenths of a second.
ParkSleep == 20

MasterFrame ==
    /\ yielded' = <<>>
    /\ UNCHANGED <<spc, connected, emitted>>
    /\ UNCHANGED <<startVars, nowVars, airVars, artVars, cacheVars>>
    /\ UNCHANGED <<snapNow, snapAirplay, artTok, artHash>>
    /\ UNCHANGED <<plNow, plDevices>>

MasterSilent ==
    /\ out' = <<>>
    /\ UNCHANGED <<subscribers, queue, accepted>>

\* _last_snapshot['master'] = v; _sse_publish('master_volume', v)
PublishMaster(v) ==
    /\ snapMaster' = Some(v)
    /\ SsePublish("master_volume", v, FALSE)
    /\ lastPubMaster' = Some(v)

\* The recheck of the master loop with only a negative interval taken for disabled.
MasterLoadSettingsBelowZero ==
    /\ masterPc = "load"
    /\ masterIter < MaxTicks
    /\ masterIter' = masterIter + 1
    /\ \E v \in PollMasterValues :
          /\ cfg' = [cfg EXCEPT !.poll_master_ms = v]
          /\ IF v.t = "str"
             THEN masterPc' = "dead" /\ UNCHANGED masterItv
             ELSE IF IntOf(v) < 0
                  THEN masterPc' = "parked" /\ UNCHANGED masterItv
                  ELSE masterPc' = "volume" /\ masterItv' = MasterInterval(IntOf(v))
    /\ MasterSilent
    /\ MasterFrame
    /\ UNCHANGED <<posts, clock, bridgeUp, plMaster, plShuffle, snapMaster, snapShuffle>>
    /\ UNCHANGED <<last_v, last_shuffle, lastPubMaster, masterResp>>

\* _watch_master_loop: s = load_settings(); pm = int(s.get('poll_master_ms', 1500)),
\* before the try: a value int() does not take raises out of the loop, which ends the
\* thread, and a fraction is cut off.  pm <= 0 parks the pass; otherwise itv is
\* computed and the try is entered.
MasterLoadSettings ==
    /\ masterPc = "load"
    /\ masterIter < MaxTicks
    /\ masterIter' = masterIter + 1
    /\ \E v \in PollMasterValues :
          /\ cfg' = [cfg EXCEPT !.poll_master_ms = v]
          /\ IF v.t = "str"
             THEN masterPc' = "dead" /\ UNCHANGED masterItv
             ELSE IF IntOf(v) <= 0
                  THEN masterPc' = "parked" /\ UNCHANGED masterItv
                  ELSE masterPc' = "volume" /\ masterItv' = MasterInterval(IntOf(v))
    /\ MasterSilent
    /\ MasterFrame
    /\ UNCHANGED <<posts, clock, bridgeUp, plMaster, plShuffle, snapMaster, snapShuffle>>
    /\ UNCHANGED <<last_v, last_shuffle, lastPubMaster, masterResp>>

\* _watch_master_loop, pm <= 0: time.sleep(2.0); continue
MasterPark ==
    /\ masterPc = "parked"
    /\ clock' = clock + ParkSleep
    /\ masterPc' = "load"
    /\ MasterSilent
    /\ MasterFrame
    /\ UNCHANGED <<posts, cfg, bridgeUp, plMaster, plShuffle, snapMaster, snapShuffle>>
    /\ UNCHANGED masterLocals

\* _watch_master_loop, first half of the try: v = _get_master_volume_percent(), stored
\* and published when it is not -1 and differs from last_v.  The probe finds the bridge
\* up or down and the player's volume as it is by then.
MasterProbeVolume ==
    /\ masterPc = "volume"
    /\ \E up \in BOOLEAN, m \in MasterInputs :
          LET v == IF up THEN Clamp100(m) ELSE -1
          IN  /\ bridgeUp' = up
              /\ plMaster' = IF up THEN m ELSE plMaster
              /\ IF v >= 0 /\ Some(v) # last_v
                 THEN /\ last_v' = Some(v)
                      /\ PublishMaster(v)
                 ELSE /\ MasterSilent
                      /\ UNCHANGED <<last_v, snapMaster, lastPubMaster>>
    /\ masterPc' = "shuffle"
    /\ MasterFrame
    /\ UNCHANGED <<posts, cfg, clock, plShuffle, snapShuffle>>
    /\ UNCHANGED <<masterIter, masterItv, last_shuffle, masterResp>>

\* _watch_master_loop, second half of the try: sh = bool(get_shuffle_enabled()), stored
\* and published when it differs from last_shuffle.  get_shuffle_enabled answers False
\* when the bridge failed.
MasterProbeShuffle ==
    /\ masterPc = "shuffle"
    /\ \E up \in BOOLEAN, f \in BOOLEAN :
          LET sh == up /\ f
          IN  /\ bridgeUp' = up
              /\ plShuffle' = IF up THEN f ELSE plShuffle
              /\ IF Some(sh) # last_shuffle
                 THEN /\ last_shuffle' = Some(sh)
                      /\ snapShuffle' = Some(sh)
                      /\ SsePublish("shuffle", [enabled |-> sh], TRUE)
                 ELSE /\ MasterSilent
                      /\ UNCHANGED <<last_shuffle, snapShuffle>>
    /\ masterPc' = "sleep"
    /\ MasterFrame
    /\ UNCHANGED <<posts, cfg, clock, plMaster, snapMaster>>
    /\ UNCHANGED <<masterIter, masterItv, last_v, lastPubMaster, masterResp>>

\* _watch_master_loop: a probe raises (osascript cannot be spawned); the except clause
\* logs it and the pass ends.
MasterTickRaises ==
    /\ masterPc \in {"volume", "shuffle"}
    /\ bridgeUp' = FALSE
    /\ masterPc' = "sleep"
    /\ MasterSilent
    /\ MasterFrame
    /\ UNCHANGED <<posts, cfg, clock, plMaster, plShuffle, snapMaster, snapShuffle>>
    /\ UNCHANGED masterLocals

\* _watch_master_loop: time.sleep(itv)
MasterSleep ==
    /\ masterPc = "sleep"
    /\ clock' = clock + masterItv
    /\ masterPc' = "load"
    /\ MasterSilent
    /\ MasterFrame
    /\ UNCHANGED <<posts, cfg, bridgeUp, plMaster, plShuffle, snapMaster, snapShuffle>>
    /\ UNCHANGED masterLocals

\* The levels a client may post to /master_volume: one int(float()) does not take, or
\* an integer.
MasterLevelInputs == {None, Some(40), Some(150)}

\* What a call of the master volume handler leaves alone.
MasterHandlerFrame ==
    /\ serving # "no"
    /\ posts < MaxPosts
    /\ posts' = posts + 1
    /\ MasterFrame
    /\ UNCHANGED <<cfg, clock, plShuffle, snapShuffle>>
    /\ UNCHANGED <<masterPc, masterIter, masterItv, last_v, last_shuffle>>

\* The master volume handler storing and publishing before it looks at the script's
\* result.
MasterVolumePostEager ==
    /\ MasterHandlerFrame
    /\ \E level \in MasterLevelInputs, up \in BOOLEAN :
          IF level = None
          THEN /\ masterResp' = Some([level |-> level, status |-> 400])
               /\ MasterSilent
               /\ UNCHANGED <<bridgeUp, plMaster, snapMaster, lastPubMaster>>
          ELSE /\ bridgeUp' = up
               /\ masterResp' = Some([level |-> level, status |-> IF up THEN 200 ELSE 500])
               /\ plMaster' = IF up THEN Clamp100(level[1]) ELSE plMaster
               /\ PublishMaster(Clamp100(level[1]))

\* master_volume, POST: a level that is not a number answers 400; the level is clamped
\* to 0..100 and the player told to take it; a failed script answers 500; otherwise the
\* handler stores and publishes the level.
MasterVolumePost ==
    /\ MasterHandlerFrame
    /\ \E level \in MasterLevelInputs, up \in BOOLEAN :
          IF level = None
          THEN /\ masterResp' = Some([level |-> level, status |-> 400])
               /\ MasterSilent
               /\ UNCHANGED <<bridgeUp, plMaster, snapMaster, lastPubMaster>>
          ELSE /\ bridgeUp' = up
               /\ masterResp' = Some([level |-> level, status |-> IF up THEN 200 ELSE 500])
               /\ IF ~up
                  THEN MasterSilent /\ UNCHANGED <<plMaster, snapMaster, lastPubMaster>>
                  ELSE /\ plMaster' = Clamp100(level[1])
                       /\ PublishMaster(Clamp100(level[1]))

\* The master loop, started by the __main__ block, beside the master volume handler,
\* against a player whose volume and shuffle flag change and a configuration file that
\* is rewritten.
NextMaster ==
    \/ MainStart
    \/ MasterLoadSettings
    \/ MasterPark
    \/ MasterProbeVolume
    \/ MasterProbeShuffle
    \/ MasterTickRaises
    \/ MasterSleep
    \/ MasterVolumePost

SpecMaster == Init /\ [][NextMaster]_vars

\* The publishers side by side, over one pass of the master loop: the loop and the
\* /shuffle handler, publishing to two subscriber streams.  config.json is left as it
\* is, the bridge answers, and the player's volume and shuffle flag change through the
\* handler only, each call of which flips the flag.
ShuffleFlipped == ShufflePost /\ plShuffle' # plShuffle
MasterFirstPass == MasterLoadSettings /\ cfg' = cfg /\ masterIter = 0
MasterProbeVolumeSteady == MasterProbeVolume /\ bridgeUp' /\ plMaster' = plMaster
MasterProbeShuffleSteady == MasterProbeShuffle /\ bridgeUp' /\ plShuffle' = plShuffle

NextFan ==
    \/ MainStart
    \/ MasterFirstPass
    \/ MasterProbeVolumeSteady
    \/ MasterProbeShuffleSteady
    \/ MasterSleep
    \/ ShuffleFlipped
    \/ \E s \in Subs : StreamOpen(s)
    \/ \E s \in Subs : StreamSnapshot(s)
    \/ \E s \in Subs : StreamNext(s)

SpecFan == Init /\ [][NextFan]_vars

-----------------------------------------------------------------------------
(* The claims. *)

\* A step that is a call of _sse_publish.
Publishes == out' # <<>>

\* A step in which the now-playing loop took a sample.
NowSampled == nowPc = "probe" /\ nowPc' = "sleep" /\ lastSample' # None

Rest(q) == IF q = <<>> THEN <<>> ELSE Tail(q)
Field(d, k) == OrEmpty(Get(d, k))
\* The (title, artist, album) of a sample as it came from the probe.
RawMeta(d) == <<Field(d, "title"), Field(d, "artist"), Field(d, "album")>>
\* The track a sample names: its identifier and its stripped metadata.
TrackOf(d) == <<Field(d, "pid"), MetaKeyOf(d)>>
NoTrack == <<"", MetaKey("", "", "")>>

\* C1: a publish that finds a subscriber's queue full drops only that envelope; the
\* subscriber stays registered, its queue as it was.
C1_FullQueueKeepsSubscriber ==
    [][Publishes =>
         \A s \in subscribers :
            Len(queue[s]) >= QueueMax => s \in subscribers' /\ queue'[s] = queue[s]]_vars

\* C2: whatever start triggers fire, and however they interleave, at most one
\* now-playing loop, one devices loop and one master/shuffle loop are started.
C2_LoopsStartOnce == nowThreads <= 1 /\ airThreads <= 1 /\ masterThreads <= 1

\* C3: what a client has received begins with the snapshot envelope and holds no other
\* snapshot; and, while the client reads, every envelope its queue accepted since it
\* was registered has been received after the snapshot, in order, or waits in the queue.
C3_SnapshotThenAccepted ==
    \A s \in Subs :
       /\ emitted[s] # <<>> => Head(emitted[s]).event = "snapshot"
       /\ \A i \in 2..Len(emitted[s]) : emitted[s][i].event # "snapshot"
       /\ connected[s] => accepted[s] = Rest(emitted[s]) \o queue[s]

\* C3's case: the one POST /shuffle so far fell between a subscriber's registration and
\* its snapshot (which already shows the new flag), and the subscriber received the
\* shuffle envelope after the snapshot.
C3_Witness ==
    \E s \in Subs :
       /\ posts = 1
       /\ Len(emitted[s]) = 2
       /\ emitted[s][1].event = "snapshot" /\ emitted[s][1].data.shuffle = TRUE
       /\ emitted[s][2].event = "shuffle"

\* C4: a publish appends the envelope to the queue of every registered subscriber whose
\* queue is not full, whatever the other queues hold; and a POST /shuffle that is due
\* can always take its publishing step, whatever the consumers have read.
C4_PublishReachesAllNonFull ==
    /\ [][Publishes =>
            \A s \in subscribers :
               Len(queue[s]) < QueueMax => queue'[s] = Append(queue[s], out'[1])]_vars
    /\ [](serving # "no" /\ posts < MaxPosts => ENABLED ShufflePost)

\* C4's case: the latest step published; one subscriber, which had read nothing, was
\* found full, and the other received the envelope.
C4_Witness ==
    \E s1, s2 \in Subs :
       /\ s1 # s2
       /\ out # <<>>
       /\ posts = QueueMax + 1
       /\ Len(accepted[s2]) = QueueMax /\ Len(queue[s2]) = QueueMax
       /\ spc[s2] = "streaming" /\ connected[s2] /\ s2 \notin subscribers
       /\ s1 \in subscribers /\ queue[s1] # <<>>
       /\ queue[s1][Len(queue[s1])] = out[1]
       /\ Len(accepted[s1]) < posts

\* C5: a now-playing tick whose probe failed, after a tick that found the player
\* playing, publishes nothing and leaves Snapshot.now and the artwork token as they were.
C5_FailedProbeIsNoChange ==
    [][NowSampled /\ lastSample' = Some([state |-> "unknown"])
         /\ lastSample # None /\ Get(lastSample[1], "state") = Some("playing") =>
         out' = <<>> /\ snapNow' = snapNow /\ artTok' = artTok]_vars

\* C6 as claimed: a sample with the identifier and the metadata of the sample before it
\* publishes no now event and leaves the artwork token alone.
C6_SameTrackIsSilent ==
    [][NowSampled /\ lastSample # None
         /\ Field(lastSample'[1], "pid") = Field(lastSample[1], "pid")
         /\ RawMeta(lastSample'[1]) = RawMeta(lastSample[1]) =>
         out' = <<>> /\ artTok' = artTok]_vars

\* The position of a sample is at most 1.5 s below that of the sample before it.
NoRegression(new, old) == PositionOf(new)[1] + RestartDrop >= PositionOf(old)[1]

\* C6 amended: a sample with the identifier, the player state and the metadata of the
\* sample before it, and a position at most 1.5 s below, publishes no now event and
\* leaves the artwork token alone.
C6_SameTrackAndStateIsSilent ==
    [][NowSampled /\ lastSample # None
         /\ Field(lastSample'[1], "pid") = Field(lastSample[1], "pid")
         /\ Get(lastSample'[1], "state") = Get(lastSample[1], "state")
         /\ RawMeta(lastSample'[1]) = RawMeta(lastSample[1])
         /\ NoRegression(lastSample'[1], lastSample[1]) =>
         out' = <<>> /\ artTok' = artTok]_vars

\* C6's case: the latest tick sampled the track and the state of the last published
\* sample at another position, and published nothing.
C6_Witness ==
    /\ nowPc = "sleep" /\ out = <<>>
    /\ snapNow # None /\ lastSample # None
    /\ Field(snapNow[1], "title") = "Come Together"
    /\ RawMeta(lastSample[1]) = RawMeta(snapNow[1])
    /\ Get(lastSample[1], "state") = Get(snapNow[1], "state")
    /\ PositionOf(lastSample[1]) # PositionOf(snapNow[1])
    /\ last_pos = PositionOf(lastSample[1])

C8_TokenMonotonic ==
    [][/\ artTok' >= artTok
       /\ NowSampled /\ TrackOf(lastSample'[1]) #
                          (IF snapNow = None THEN NoTrack ELSE TrackOf(snapNow[1]))
            => /\ artTok' > artTok
               /\ Len(out') = 1
               /\ out'[1].data.artwork_token = artTok'
       /\ Publishes /\ out'[1].event = "now" => out'[1].data.artwork_token >= artTok]_vars

\* C8's case: the second or a later tick found another track than the one published
\* before (whose token was a millisecond token already) and published a greater token.
C8_Witness ==
    /\ nowPc = "sleep" /\ nowIter >= 2
    /\ Len(out) = 1 /\ out[1].event = "now"
    /\ Field(out[1].data, "title") = "Yesterday"
    /\ out[1].data.artwork_token = TimeMillis
    /\ artTok = TimeMillis
    /\ clock > StartClock

\* C9: a pass of the devices loop publishes a devices event only if the list it
\* composed differs from the list of the latest devices event, whether the loop or a
\* command handler published that one.
C9_DevicesLoopPublishesOnlyNewLists ==
    [][airPc = "probe" /\ Publishes => lastPubAir' # lastPubAir]_vars

\* C11: once a subscriber's client has disconnected, its queue is eventually out of
\* the registered set, whether or not anything is published afterwards.
C11_DisconnectUnregisters ==
    \A s \in Subs : (~connected[s] /\ s \in subscribers) ~> (s \notin subscribers)

\* A pass of the devices loop whose probes answered.
AirSampled == airPc = "probe" /\ airPc' = "sleep" /\ bridgeUp'

\* A subscriber whose stream is open and whose queue is not registered: a publish found
\* the queue full and dropped its envelope.
DroppedFor(s) == spc[s] = "streaming" /\ s \notin subscribers

\* C12: where the only envelopes are devices envelopes, a subscriber for which one was
\* dropped is offered, at the next pass of the devices loop, an envelope with the
\* devices as they are, whether or not they have changed.
C12_NextTickRedelivers ==
    [][AirSampled =>
         \A s \in Subs :
            DroppedFor(s) =>
               /\ Publishes
               /\ out'[1].data = ComposeDevices(bridgeUp', plDevices')
               /\ s \in subscribers]_vars

IsPrefix(p, q) == Len(p) <= Len(q) /\ SubSeq(q, 1, Len(p)) = p

\* C13: the envelopes a subscriber has dequeued are, in order and one for one, the
\* first envelopes its queue accepted; and a publish of the devices loop puts its
\* envelope once, behind everything a queue accepted before, or not at all.  So what
\* a subscriber dequeues of the loop's envelopes keeps the order of the loop's passes.
C13_DequeuedInDetectionOrder ==
    /\ [](\A s \in Subs : IsPrefix(Rest(emitted[s]), accepted[s]))
    /\ [][AirSampled /\ Publishes =>
            \A s \in Subs :
               \/ accepted'[s] = Append(accepted[s], out'[1])
               \/ accepted'[s] = accepted[s]]_vars

\* C13's case: the subscriber has dequeued two envelopes of the devices loop, of two
\* different passes, the earlier one first.
C13_Witness ==
    /\ airIter >= 2 /\ posts = 0
    /\ Len(emitted[SlowSub]) = 3
    /\ emitted[SlowSub][2].event = "airplay_full"
    /\ emitted[SlowSub][3].event = "airplay_full"
    /\ emitted[SlowSub][2] # emitted[SlowSub][3]
    /\ emitted[SlowSub][3].data = airLast[1]

\* A step that is the cache operation op.
CacheStep(op) == cacheOps' = cacheOps + 1 /\ cacheOp'.op = op
\* A read of the key of the operation before it.
RereadsKey == CacheStep("read") /\ cacheOp'.album = cacheOp.album /\ cacheOp'.artist = cacheOp.artist
DataOf(r) == IF r = None THEN None ELSE Some(r[1].data)

\* C14: a read with the empty artist, when no file exists under (album, ""), returns
\* the entry stored under (album, artist) for a non-empty artist.
C14_EmptyArtistFallsBack ==
    [][CacheStep("read") /\ cacheOp'.artist = ""
         /\ (\A i \in 1..Len(Exts) : files[AlbumCachePath(cacheOp'.album, "", Exts[i])] = None) =>
         \A ar \in Artists \ {""} :
            TryReadAlbumCache(files, cacheOp'.album, ar) # None =>
               cacheOp'.result = TryReadAlbumCache(files, cacheOp'.album, ar)]_vars

\* C15: a read of the key that the operation before it wrote, a write that stored
\* bytes, returns those bytes, whatever the cache held for the key before.
C15_ReadReturnsLatestWrite ==
    [][RereadsKey /\ cacheOp.op = "write" /\ cacheOp.stored # None =>
         DataOf(cacheOp'.result) = cacheOp.stored]_vars

\* C16: a read of the key that the operation before it wrote, a write that found no
\* file of the key and stored bytes, returns those bytes; a read leaves the files as
\* they are; and a read of the key that the operation before it read returns the same.
C16_FreshWriteRoundTrip ==
    /\ [][RereadsKey /\ cacheOp.op = "write" /\ cacheOp.fresh /\ cacheOp.stored # None =>
            DataOf(cacheOp'.result) = cacheOp.stored]_vars
    /\ [][CacheStep("read") => files' = files]_vars
    /\ [][RereadsKey /\ cacheOp.op = "read" => cacheOp'.result = cacheOp.result]_vars

\* C16's case: with a cover cached under (Abbey Road, ""), the first write for
\* (Abbey Road, The Beatles) stored another cover as it was, and the read that followed
\* returned it.
C16_Witness ==
    /\ cacheOps = 3
    /\ cacheOp.op = "read" /\ cacheOp.album = "Abbey Road" /\ cacheOp.artist = "The Beatles"
    /\ files[AlbumCachePath("Abbey Road", "", "webp")] = Some([fmt |-> "webp", img |-> "cover-a"])
    /\ files[AlbumCachePath("Abbey Road", "The Beatles", "png")] =
          Some([fmt |-> "png", img |-> "cover-b"])
    /\ cacheOp.result = Some([data |-> [fmt |-> "png", img |-> "cover-b"], mime |-> "image/png"])

\* C17: after a purge that answered ok, every key that was cached before misses, and
\* the count it reports is the number of files it removed.
C17_PurgeEmptiesCache ==
    [][CacheStep("purge") /\ cacheOp'.ok =>
         /\ \A al \in Albums, ar \in Artists :
               TryReadAlbumCache(files, al, ar) # None =>
                  TryReadAlbumCache(files', al, ar) = None
         /\ cacheOp'.count =
               Cardinality({p \in CachePaths : files[p] # None /\ files'[p] = None})]_vars

\* C18: every /artwork request (the steps that count as operations where the handler
\* is the only one) is answered with status 200 and either image bytes or the
\* placeholder image.
C18_ArtworkNeverErrors ==
    [][cacheOps' = cacheOps + 1 =>
         artResp'.status = 200 /\ artResp'.kind \in {"image", "placeholder"}]_vars

\* The snapshot envelope a step wrote to a client, as a set of at most one envelope.
SnapshotsSent == IF yielded' # <<>> /\ yielded'[2].event = "snapshot" THEN {yielded'[2].data} ELSE {}

\* C19: the snapshot envelope written to a new subscriber carries the fields of the
\* store as they are at that moment: each of now, devices, master volume and shuffle
\* that the store holds, and the artwork token.
C19_SnapshotFromStore ==
    [][\A d \in SnapshotsSent :
          /\ snapNow # None => Some(d.now) = snapNow
          /\ snapAirplay # None => Some(d.airplay) = snapAirplay
          /\ snapMaster # None => Some(d.master) = snapMaster
          /\ snapShuffle # None => Some(d.shuffle) = snapShuffle
          /\ d.artwork_token = artTok]_vars

\* C20: a pass of the devices loop whose probes failed, after a pass that stored a
\* list of devices, publishes nothing and leaves the stored list as it was.
C20_FailedDevicesProbeIsNoChange ==
    [][airPc = "probe" /\ airPc' = "sleep" /\ ~bridgeUp'
         /\ airLast # None /\ airLast # Some(<<>>) =>
         out' = <<>> /\ snapAirplay' = snapAirplay]_vars

\* A step in which the master loop ran one of its two probes.
MasterProbed == masterPc \in {"volume", "shuffle"} /\ masterPc' # masterPc

\* C21: a pass of the master loop whose volume probe or shuffle probe failed publishes
\* nothing and leaves the stored master volume and shuffle flag as they were.
C21_FailedMasterProbeIsNoChange ==
    [][MasterProbed /\ ~bridgeUp' =>
         out' = <<>> /\ snapMaster' = snapMaster /\ snapShuffle' = snapShuffle]_vars

\* A step in which the master loop read the configuration.
MasterRechecked == masterIter' = masterIter + 1
\* The master poll interval the configuration holds is a number; it is above zero.
MasterNumeric(c) == c.poll_master_ms.t \in {"int", "frac"}
MasterPositive(c) ==
    c.poll_master_ms.t = "frac" \/ (c.poll_master_ms.t = "int" /\ c.poll_master_ms.v > 0)
\* The only step a parked loop takes is back to its recheck, with no probe, no write
\* to the store and nothing published.
ParkedIsIdle ==
    masterPc = "parked" /\ masterPc' # "parked" =>
       /\ out' = <<>> /\ snapVars' = snapVars /\ bridgeUp' = bridgeUp
       /\ masterPc' = "load"

\* C22 as claimed: a recheck that finds the master interval <= 0 parks the loop, a
\* parked loop is idle, and a recheck that finds the interval > 0 goes on to sample.
C22_ParkedWhileDisabled ==
    [][/\ MasterRechecked /\ MasterNumeric(cfg') =>
            /\ out' = <<>> /\ snapVars' = snapVars
            /\ masterPc' = IF MasterPositive(cfg') THEN "volume" ELSE "parked"
       /\ ParkedIsIdle]_vars

\* C22 amended: a recheck that finds the master interval below 1 (its whole part <= 0)
\* parks the loop, a parked loop is idle, and a recheck that finds the interval at 1 or
\* above goes on to sample.
C22_ParkedWhileBelowOne ==
    [][/\ MasterRechecked /\ MasterNumeric(cfg') =>
            /\ out' = <<>> /\ snapVars' = snapVars
            /\ masterPc' = IF IntOf(cfg'.poll_master_ms) >= 1 THEN "volume" ELSE "parked"
       /\ ParkedIsIdle]_vars

\* The loop was parked by its first recheck and samples after its second.
C22_Witness ==
    /\ masterPc = "shuffle"
    /\ masterIter = 2
    /\ clock = StartClock + ParkSleep
    /\ last_v # None

\* A step that is a call of the master volume handler.
MasterPosted == posts' = posts + 1

\* C24: a call of the master volume handler that the player accepted stores the level
\* asked, clamped to 0..100, and publishes exactly one master_volume envelope with it;
\* a call that failed publishes nothing and leaves the store as it was.
C24_MasterPushAfterSuccess ==
    [][MasterPosted =>
         IF masterResp'[1].status = 200
         THEN LET level == Clamp100(masterResp'[1].level[1])
              IN  /\ out' = <<Envelope("master_volume", level, FALSE)>>
                  /\ level \in 0..100
                  /\ snapMaster' = Some(level)
                  /\ UNCHANGED <<snapNow, snapAirplay, snapShuffle, artTok, artHash>>
         ELSE out' = <<>> /\ snapVars' = snapVars]_vars

\* A level above 100 was accepted and stored clamped, after a call that failed.
C24_Witness ==
    /\ masterResp = Some([level |-> Some(150), status |-> 200])
    /\ snapMaster = Some(100)
    /\ out # <<>>
    /\ posts >= 2

\* C27: a successful sample of the master volume leaves the store and the latest
\* master_volume envelope at the sampled value.  With the volume staying where it is
\* and nobody posting, later samples equal last_v and change nothing, so the store
\* converges to the player's volume only if this holds at every successful sample.
C27_SampleLeavesStoreAtVolume ==
    [][masterPc = "volume" /\ masterPc' = "shuffle" /\ bridgeUp' =>
         snapMaster' = Some(plMaster') /\ lastPubMaster' = Some(plMaster')]_vars

\* The extensions under which a key has a file, and the file of its first extension.
Encodings(f, album, artist) ==
    {i \in 1..Len(Exts) : f[AlbumCachePath(album, artist, Exts[i])] # None}
FirstEncoding(f, album, artist) ==
    LET e == Encodings(f, album, artist)
    IN  f[AlbumCachePath(album, artist, Exts[CHOOSE i \in e : \A j \in e : i <= j])]

\* C23: a read with a non-empty artist returns the first encoding of the exact
\* (album, artist) key when that key has one; else the first encoding of (album, "")
\* when that key has one; else nothing.
C23_ExactKeyBeforeFallback ==
    [][CacheStep("read") /\ cacheOp'.artist # "" =>
         LET album == cacheOp'.album
             artist == cacheOp'.artist
         IN  IF Encodings(files, album, artist) # {}
             THEN DataOf(cacheOp'.result) = FirstEncoding(files, album, artist)
             ELSE IF Encodings(files, album, "") # {}
             THEN DataOf(cacheOp'.result) = FirstEncoding(files, album, "")
             ELSE cacheOp'.result = None]_vars

\* C23's case: with no file of (Help!, The Beatles) and a cover under (Help!, ""), a
\* read for (Help!, The Beatles) returned the cover of (Help!, "").
C23_Witness ==
    /\ cacheOp.op = "read" /\ cacheOp.album = "Help!" /\ cacheOp.artist = "The Beatles"
    /\ Encodings(files, "Help!", "The Beatles") = {}
    /\ files[AlbumCachePath("Help!", "", "jpg")] = Some([fmt |-> "jpeg", img |-> "cover-a"])
    /\ cacheOp.result = Some([data |-> [fmt |-> "jpeg", img |-> "cover-a"], mime |-> "image/jpeg"])

\* A tick took a sample with the identifier, the player state and the metadata of the
\* sample before it.
SameTrackSampled ==
    /\ NowSampled /\ lastSample # None
    /\ Field(lastSample'[1], "pid") = Field(lastSample[1], "pid")
    /\ Get(lastSample'[1], "state") = Get(lastSample[1], "state")
    /\ RawMeta(lastSample'[1]) = RawMeta(lastSample[1])
\* By how much the position of the sample is below the last observed position.
PositionDrop == last_pos[1] - PositionOf(lastSample'[1])[1]
\* What a tick does on a restart: one now event with a greater artwork token, the
\* identifier bookkeeping keeping its values; and what a silent tick does.
RestartPublished ==
    /\ Len(out') = 1 /\ out'[1].event = "now"
    /\ artTok' > artTok /\ out'[1].data.artwork_token = artTok'
    /\ last_pid' = last_pid /\ last_meta_key' = last_meta_key
NowTickSilent == out' = <<>> /\ artTok' = artTok

\* C25 as claimed: at constant identifier, state and metadata, a sample whose position
\* is 1.5 s or more below the last observed one is a restart, and any other is silent.
C25_RestartAtDropOfThreshold ==
    [][SameTrackSampled /\ last_pos # None =>
         IF PositionDrop >= RestartDrop THEN RestartPublished ELSE NowTickSilent]_vars

\* C25 amended: at constant identifier, state and metadata, a sample whose position is
\* more than 1.5 s below the last observed one is a restart, and any other is silent.
C25_RestartAboveThreshold ==
    [][SameTrackSampled /\ last_pos # None =>
         IF PositionDrop > RestartDrop THEN RestartPublished ELSE NowTickSilent]_vars

\* C25's case: the second or a later tick found the track of the tick before at
\* position 0, more than 1.5 s below, and published it with a fresh token.
C25_Witness ==
    /\ restartOnly /\ nowPc = "sleep" /\ nowIter >= 2
    /\ lastSample # None /\ PositionOf(lastSample[1]) = Some(0)
    /\ Field(lastSample[1], "title") = "Come Together"
    /\ snapNow = lastSample
    /\ Len(out) = 1 /\ out[1].event = "now" /\ out[1].data.artwork_token = TimeMillis
    /\ artTok = TimeMillis
    /\ last_meta_key = Some(MetaKey("Come Together", "The Beatles", "Abbey Road"))

\* C26: a sample whose title, artist and album are all empty, with the identifier and
\* the player state of the sample before it and no position regression, publishes no
\* now event and leaves the artwork token alone.
C26_EmptyMetadataIsNoChange ==
    [][NowSampled /\ lastSample # None
         /\ RawMeta(lastSample'[1]) = <<"", "", "">>
         /\ Field(lastSample'[1], "pid") = Field(lastSample[1], "pid")
         /\ Get(lastSample'[1], "state") = Get(lastSample[1], "state")
         /\ PositionOf(lastSample'[1])[1] >= PositionOf(lastSample[1])[1] =>
         NowTickSilent]_vars

\* The digests of the encodings an album's artwork may be served in.
ArtworkDigests(album) ==
    { Sha1([fmt |-> f, img |-> AlbumArt(album).img]) : f \in {"jpeg", "png", "webp"} }

\* C28: a now envelope that names an album and carries a top-level artwork_etag
\* carries the digest of that album's artwork.
C28_EtagOfNamedAlbum ==
    [][\A i \in 1..Len(out') :
          /\ out'[i].event = "now" /\ out'[i].artwork_etag # None
          /\ Field(out'[i].data, "album") \in Albums
          => out'[i].artwork_etag[1] \in ArtworkDigests(Field(out'[i].data, "album"))]_vars

\* C30: a tick that detects a change and finds the player playing leaves a prefetch
\* thread scheduled, whether or not the album's name has come through yet: one that
\* was not running before, or the one of the album it published.
C30_ChangeSchedulesPrefetch ==
    [][NowSampled /\ Publishes /\ Get(lastSample'[1], "state") = Some("playing") =>
         \E a \in prefetching' :
            a \notin prefetching \/ a = Strip(Field(lastSample'[1], "album"))]_vars

IsSuffix(p, q) == Len(p) <= Len(q) /\ SubSeq(q, Len(q) - Len(p) + 1, Len(q)) = p

\* C29: every step, of whichever publisher, puts at most one envelope, the same one,
\* behind everything each queue accepted before; so of two registered queues the one
\* registered later has accepted exactly the latest envelopes of the other; and what a
\* subscriber has dequeued are, in order, the first envelopes its queue accepted.  Two
\* subscribers therefore receive the envelopes they have in common in the same order.
C29_SameOrderForAll ==
    /\ [][\A s \in Subs :
             \/ accepted'[s] = accepted[s]
             \/ Publishes /\ accepted'[s] = Append(accepted[s], out'[1])]_vars
    /\ [](\A s, t \in subscribers :
             IsSuffix(accepted[s], accepted[t]) \/ IsSuffix(accepted[t], accepted[s]))
    /\ [](\A s \in Subs : IsPrefix(Rest(emitted[s]), accepted[s]))

\* C29's case: both subscribers have received, after their snapshots, a master_volume
\* envelope of the loop and then a shuffle envelope, the same two.
C29_Witness ==
    /\ \A s \in Subs :
          /\ Len(emitted[s]) = 3
          /\ emitted[s][2].event = "master_volume"
          /\ emitted[s][3].event = "shuffle"
    /\ emitted["q1"][2] = emitted["q2"][2]
    /\ emitted["q1"][3] = emitted["q2"][3]
    /\ masterIter >= 1

\* A tick took a sample that differs from the sample before it in the player state
\* only: same identifier, same metadata as the probe gave them, and a position not more
\* than 1.5 s below the position of the sample before.
StateOnlySampled ==
    /\ NowSampled /\ lastSample # None
    /\ Field(lastSample'[1], "pid") = Field(lastSample[1], "pid")
    /\ RawMeta(lastSample'[1]) = RawMeta(lastSample[1])
    /\ Get(lastSample'[1], "state") # Get(lastSample[1], "state")
    /\ ~Restarted(PositionOf(lastSample'[1]), PositionOf(lastSample[1]))

\* C33: a tick whose sample differs from the sample before it in the player state only
\* publishes exactly one now event, which carries the sample with its new state and the
\* artwork token as it was, stores the sample as _last_snapshot['now'] and leaves the
\* artwork token unchanged.
C33_StateChangeKeepsToken ==
    [][StateOnlySampled =>
         /\ Len(out') = 1 /\ out'[1].event = "now"
         /\ out'[1].data = WithToken(lastSample'[1], artTok)
         /\ Get(out'[1].data, "state") = Get(lastSample'[1], "state")
         /\ snapNow' = lastSample'
         /\ artTok' = artTok]_vars

\* C33's case: `Come Together` was published while playing, with a token of its own,
\* and a later tick has published it paused under the same token.
C33_Witness ==
    /\ nowPc = "sleep" /\ nowIter >= 2
    /\ Len(out) = 1 /\ out[1].event = "now"
    /\ Field(out[1].data, "title") = "Come Together"
    /\ Get(out[1].data, "state") = Some("paused")
    /\ snapNow = lastSample
    /\ out[1].data.artwork_token = artTok
    /\ artTok = StartClock * 100
    /\ clock > StartClock

\* C32: with the devices loop the only publisher of device lists, a pass whose
\* composed list equals the list of the pass before it publishes nothing and leaves
\* the store as it was, and a pass whose list differs (the first pass included)
\* publishes exactly one devices event (`airplay_full` on the wire) carrying the whole
\* list it composed and stores that list as _last_snapshot['airplay'].
C32_DevicesEventPerNewList ==
    [][airPc = "probe" /\ airPc' = "sleep" /\ airSample' # None =>
         IF airSample' = airSample
         THEN out' = <<>> /\ snapAirplay' = snapAirplay
         ELSE /\ Len(out') = 1 /\ out'[1].event = "airplay_full"
              /\ out'[1].data = airSample'[1]
              /\ snapAirplay' = airSample']_vars

\* C32's case: the kitchen speaker was added to the Living Room speaker, the list of
\* the two was published and stored, and the third pass, composing the same list,
\* has published nothing.
C32_Witness ==
    /\ airPc = "sleep" /\ airIter = 3
    /\ out = <<>>
    /\ Len(accepted[SlowSub]) = 2
    /\ Len(accepted[SlowSub][1].data) = 1
    /\ Len(accepted[SlowSub][2].data) = 2
    /\ airSample = Some(accepted[SlowSub][2].data)
    /\ snapAirplay = airSample

\* A step of the prefetch thread i.
TaskStepped(i) == i \in 1..Len(tasks) /\ tasks'[i] # tasks[i]

C10_LoopsNeverEnd == nowPc # "dead"

====
